---- MODULE Spec2Model ----
(***************************************************************************)
(* SmashBoard match-scheduling engine: the round generators of             *)
(* src/schedulers (singles, doubles, teamed doubles, King of Court) and    *)
(* the match-completion handlers of PickleballTournamentManager.js.        *)
(*                                                                         *)
(* Ratings are kept in tenths (3.5 is 35).  Random jitter and shuffles     *)
(* are nondeterministic choices over every outcome they can produce.       *)
(***************************************************************************)
EXTENDS Integers, Sequences, FiniteSets, TLC

VARIABLES
    format,     \* scheduler in use: singles, doubles, teamed_doubles, kot, kot_teamed
    players,    \* presentPlayers: sequence of [id, gender, rating]
    teams,      \* teams: sequence of [id, gender, avgRating]
    courts,     \* number of courts
    bySkill,    \* separateBySkill
    preferMixed,\* preferMixedDoubles
    stats,      \* the stats map handed to the generator (playerStats / fixedTeamStats / ladderStats)
    roundIdx,   \* currentRoundIndex of the next call (currentRound of the session)
    rounds,     \* previousRounds: the rounds returned so far
    courtStates,\* session: one [status, currentMatch] per court
    matchFormat,\* session: single_match or best_of_3
    alertMsg,   \* session: the alert shown by the last operation, "" if none
    bestSplit,  \* the split findBestTeamSplit returned for the group at hand
    minPerLevel,\* the minPlayersPerLevel handed to separatePlayersBySkill
    separated,  \* what separatePlayersBySkill returned for the population at hand
    tournamentType, \* session: round_robin or king_of_court
    ladderStats,    \* session: kotStats, the ladder stats of the players
    ladderTeamStats,\* session: kotTeamStats, the ladder stats of the teams
    kotAutoTeams,   \* session: the fixed teams the ladder made of the players
    fixedTeamStats, \* session: teamStats, the stats of the teams of a teamed round robin
    thrown,     \* the error the last scheduler call threw, "" if it returned
    localStorage,   \* browser: the items of window.localStorage, key -> value
    prompt,         \* MigrationPrompt: the component's state and handleMigrate's position
    tournamentsTable,\* server: the rows of the tournaments table of one user
    handlers,       \* server: the session requests being handled, each with its position
    sync            \* useSessionSync: the debounce timer, the clock and the requests issued

vars == <<format, players, teams, courts, bySkill, preferMixed, stats, roundIdx, rounds,
          courtStates, matchFormat, alertMsg, bestSplit, minPerLevel, separated,
          tournamentType, ladderStats, ladderTeamStats, kotAutoTeams, fixedTeamStats, thrown,
          localStorage, prompt, tournamentsTable, handlers, sync>>

\* what lives outside the tournament manager: the browser's storage, the migration
\* prompt, the server's table and request handlers, the session sync hook
cloud == <<localStorage, prompt, tournamentsTable, handlers, sync>>

\* nothing stored, no prompt, no row, no request, no timer
SyncIdle == [now |-> 0, timers |-> {}, debounceTimer |-> 0, taken |-> <<>>, issued |-> <<>>]
CloudIdle ==
    /\ localStorage = <<>>
    /\ prompt = [pc |-> "hidden"]
    /\ tournamentsTable = <<>>
    /\ handlers = <<>>
    /\ sync = SyncIdle

(* ------------------------------ bounds -------------------------------- *)
MaxRounds == 3

(* ------------------------------ helpers ------------------------------- *)
Abs(x) == IF x < 0 THEN 0 - x ELSE x
Min2(a, b) == IF a < b THEN a ELSE b
Range(s) == {s[i] : i \in DOMAIN s}
Ids(s) == {s[i].id : i \in DOMAIN s}

RECURSIVE SumOver(_, _)
SumOver(f, S) ==
    IF S = {} THEN 0
    ELSE LET x == CHOOSE y \in S : TRUE IN f[x] + SumOver(f, S \ {x})

RECURSIVE Filter(_, _)
\* Array.prototype.filter with the membership test keep: the elements whose id is in keep
Filter(s, keep) ==
    IF s = <<>> THEN <<>>
    ELSE IF Head(s).id \in keep THEN <<Head(s)>> \o Filter(Tail(s), keep)
    ELSE Filter(Tail(s), keep)

Count(h, id) == IF id \in DOMAIN h THEN h[id] ELSE 0

ById(s, id) == CHOOSE p \in Range(s) : p.id = id


(* ---------------------------- shared.js ------------------------------- *)
NumLevels == 7

\* getPlayerSkillLevel: the index of the level in SKILL_LEVELS (0 BEGINNER .. 6 EXPERT_PRO);
\* a rating outside every range falls back to BEGINNER
LevelIndex(rating) ==
    IF rating >= 20 /\ rating <= 29 THEN 0
    ELSE IF rating >= 30 /\ rating <= 34 THEN 1
    ELSE IF rating >= 35 /\ rating <= 39 THEN 2
    ELSE IF rating >= 40 /\ rating <= 44 THEN 3
    ELSE IF rating >= 45 /\ rating <= 49 THEN 4
    ELSE IF rating >= 50 /\ rating <= 54 THEN 5
    ELSE IF rating >= 55 /\ rating <= 60 THEN 6
    ELSE 0

canPlayTogether(player1, player2) ==
    Abs(LevelIndex(player1.rating) - LevelIndex(player2.rating)) <= 1

RECURSIVE SeqMin(_)
SeqMin(s) == IF Len(s) = 1 THEN s[1] ELSE Min2(s[1], SeqMin(Tail(s)))
RECURSIVE SeqMax(_)
SeqMax(s) == IF Len(s) = 1 THEN s[1] ELSE (LET m == SeqMax(Tail(s)) IN IF s[1] > m THEN s[1] ELSE m)
Ratings(ps) == [i \in DOMAIN ps |-> ps[i].rating]

RECURSIVE BumpUpKeepingSource(_, _, _)
\* a first pass that forgets to empty the level it moved
BumpUpKeepingSource(g, i, minPlayersPerLevel) ==
    IF i >= NumLevels THEN g
    ELSE LET above == {t \in (i + 1)..(NumLevels - 1) : g[t] # <<>>}
         IN  IF Len(g[i]) > 0 /\ Len(g[i]) < minPlayersPerLevel /\ above # {}
             THEN LET t == CHOOSE x \in above : \A y \in above : x <= y
                  IN  BumpUpKeepingSource([g EXCEPT ![t] = @ \o g[i]], i + 1, minPlayersPerLevel)
             ELSE BumpUpKeepingSource(g, i + 1, minPlayersPerLevel)

RECURSIVE BumpUp(_, _, _)
\* first pass of separatePlayersBySkill: an undersized level joins the nearest
\* non-empty level above it; g maps level index to its player sequence
BumpUp(g, i, minPlayersPerLevel) ==
    IF i >= NumLevels THEN g
    ELSE LET above == {t \in (i + 1)..(NumLevels - 1) : g[t] # <<>>}
         IN  IF Len(g[i]) > 0 /\ Len(g[i]) < minPlayersPerLevel /\ above # {}
             THEN LET t == CHOOSE x \in above : \A y \in above : x <= y
                  IN  BumpUp([g EXCEPT ![t] = @ \o g[i], ![i] = <<>>], i + 1, minPlayersPerLevel)
             ELSE BumpUp(g, i + 1, minPlayersPerLevel)

\* a second pass that moves nobody
BumpDownSkipped(g, i, minPlayersPerLevel) == g

RECURSIVE BumpDown(_, _, _)
\* second pass: an undersized level joins the nearest non-empty level below it
BumpDown(g, i, minPlayersPerLevel) ==
    IF i < 0 THEN g
    ELSE LET below == {t \in 0..(i - 1) : g[t] # <<>>}
         IN  IF Len(g[i]) > 0 /\ Len(g[i]) < minPlayersPerLevel /\ below # {}
             THEN LET t == CHOOSE x \in below : \A y \in below : x >= y
                  IN  BumpDown([g EXCEPT ![t] = @ \o g[i], ![i] = <<>>], i - 1, minPlayersPerLevel)
             ELSE BumpDown(g, i - 1, minPlayersPerLevel)

RECURSIVE FinalGroupsAnySize(_, _, _)
\* a variant that keeps every non-empty level as a group
FinalGroupsAnySize(g, i, minPlayersPerLevel) ==
    IF i >= NumLevels THEN <<>>
    ELSE (IF Len(g[i]) > 0
          THEN <<[level |-> i, players |-> g[i],
                  minRating |-> SeqMin(Ratings(g[i])), maxRating |-> SeqMax(Ratings(g[i]))]>>
          ELSE <<>>) \o FinalGroupsAnySize(g, i + 1, minPlayersPerLevel)

RECURSIVE FinalGroups(_, _, _)
\* the levels that kept at least minPlayersPerLevel players, in level order
FinalGroups(g, i, minPlayersPerLevel) ==
    IF i >= NumLevels THEN <<>>
    ELSE (IF Len(g[i]) >= minPlayersPerLevel
          THEN <<[level |-> i, players |-> g[i],
                  minRating |-> SeqMin(Ratings(g[i])), maxRating |-> SeqMax(Ratings(g[i]))]>>
          ELSE <<>>) \o FinalGroups(g, i + 1, minPlayersPerLevel)

RECURSIVE Orphans(_, _, _)
Orphans(g, i, minPlayersPerLevel) ==
    IF i >= NumLevels THEN <<>>
    ELSE (IF Len(g[i]) > 0 /\ Len(g[i]) < minPlayersPerLevel THEN g[i] ELSE <<>>)
         \o Orphans(g, i + 1, minPlayersPerLevel)

\* twice the distance of a rating to the middle of a group's rating span
MidDist2(orphan, group) == Abs(2 * orphan.rating - (group.minRating + group.maxRating))

RECURSIVE AdoptOrphans(_, _)
\* each orphan joins the first group whose rating midpoint is strictly closest
AdoptOrphans(groups, orphans) ==
    IF orphans = <<>> THEN groups
    ELSE LET o == Head(orphans)
             k == CHOOSE x \in DOMAIN groups : \A y \in DOMAIN groups :
                      y # x => (MidDist2(o, groups[x]) < MidDist2(o, groups[y])
                                \/ (MidDist2(o, groups[x]) = MidDist2(o, groups[y]) /\ x < y))
         IN  AdoptOrphans([groups EXCEPT ![k] =
                              [@ EXCEPT !.players = Append(@, o),
                                        !.minRating = Min2(@, o.rating),
                                        !.maxRating = IF o.rating > @ THEN o.rating ELSE @]],
                          Tail(orphans))

MixedLevel == 7

\* separatePlayersBySkill: the groups it returns, in level order
separatePlayersBySkill(ps, minPlayersPerLevel) ==
    LET g0 == [l \in 0..(NumLevels - 1) |->
                  Filter(ps, {q.id : q \in {r \in Range(ps) : LevelIndex(r.rating) = l}})]
        g2 == BumpDown(BumpUp(g0, 0, minPlayersPerLevel), NumLevels - 1, minPlayersPerLevel)
        finalGroups == FinalGroups(g2, 0, minPlayersPerLevel)
        orphanedPlayers == Orphans(g2, 0, minPlayersPerLevel)
    IN  IF orphanedPlayers = <<>> THEN finalGroups
        ELSE IF finalGroups # <<>> THEN AdoptOrphans(finalGroups, orphanedPlayers)
        ELSE <<[level |-> MixedLevel, players |-> ps,
                minRating |-> SeqMin(Ratings(ps)), maxRating |-> SeqMax(Ratings(ps))]>>

(* --------------------- singlesScheduler.js ---------------------------- *)
NewSinglesEntry == [roundsPlayed |-> 0, roundsSatOut |-> 0, lastPlayedRound |-> -1,
                    opponents |-> <<>>]

\* a fresh map that keeps the entries of the present players only
InitializeOnlyPresent(playerStats, presentPlayers) ==
    [id \in Ids(presentPlayers) |->
        IF id \in DOMAIN playerStats THEN playerStats[id] ELSE NewSinglesEntry]

\* initializePlayerStats: an entry for every present player that has none
SinglesInitializePlayerStats(playerStats, presentPlayers) ==
    [id \in DOMAIN playerStats \cup Ids(presentPlayers) |->
        IF id \in DOMAIN playerStats THEN playerStats[id] ELSE NewSinglesEntry]

\* The priority of selectPlayersForRound without its jitter, multiplied by the
\* number K of stats entries so that the average stays an integer.
StandardPriorityK(st, id, roundIndex) ==
    LET K == Cardinality(DOMAIN st)
        s == st[id]
        total == SumOver([i \in DOMAIN st |-> st[i].roundsPlayed], DOMAIN st)
        since == IF s.lastPlayedRound >= 0
                 THEN (roundIndex - s.lastPlayedRound) * 200 ELSE 1000
    IN  K * (s.roundsSatOut * 500 + since)
        + (IF roundIndex > 0 THEN 100 * (total - K * s.roundsPlayed)
                             ELSE 0 - 100 * K * s.roundsPlayed)

RECURSIVE SortedPrefixes(_, _, _, _)
\* Every beginning of length n that sorting S by "priority + jitter" descending
\* can give, the jitter of each element being any value of [0, 1) (K after scaling):
\* x can come first iff no other element beats it whatever the jitters.
SortedPrefixes(S, pr, K, n) ==
    IF n = 0 \/ S = {} THEN {<<>>}
    ELSE UNION {{<<x>> \o t : t \in SortedPrefixes(S \ {x}, pr, K, n - 1)} :
                x \in {y \in S : \A z \in S : pr[z] < pr[y] + K}}

\* selectPlayersForRound (singles): sequences of player ids
SinglesSelectPlayersForRound(allPlayers, playerStats, maxPlayers, roundIndex) ==
    IF Len(allPlayers) <= maxPlayers THEN {[i \in DOMAIN allPlayers |-> allPlayers[i].id]}
    ELSE LET pr == [id \in Ids(allPlayers) |-> StandardPriorityK(playerStats, id, roundIndex)]
         IN  SortedPrefixes(Ids(allPlayers), pr, Cardinality(DOMAIN playerStats), maxPlayers)

RECURSIVE ClosestRating(_, _, _)
\* sameGender.reduce(...): the first candidate with the strictly smallest rating gap
ClosestRating(cands, target, best) ==
    IF cands = <<>> THEN best
    ELSE ClosestRating(Tail(cands), target,
            IF Abs(Head(cands).rating - target.rating) < Abs(best.rating - target.rating)
            THEN Head(cands) ELSE best)

RECURSIVE SinglesCourtLoopAnyGender(_, _, _, _, _)
\* a court loop that pairs the first remaining player with the closest rating of any gender
SinglesCourtLoopAnyGender(selected, used, courtIdx, numCourts, matches) ==
    LET remaining == Filter(selected, Ids(selected) \ used) IN
    IF courtIdx >= numCourts \/ Len(remaining) < 2 THEN matches
    ELSE LET player1 == remaining[1]
             bestOpponent == ClosestRating(Tail(Tail(remaining)), player1, remaining[2])
         IN  SinglesCourtLoopAnyGender(selected, used \cup {player1.id, bestOpponent.id},
                 courtIdx + 1, numCourts,
                 Append(matches,
                     [court |-> courtIdx + 1, gameFormat |-> "singles",
                      player1 |-> player1.id, player2 |-> bestOpponent.id,
                      diff |-> Abs(player1.rating - bestOpponent.rating),
                      status |-> "pending", winner |-> "none"]))

RECURSIVE SinglesCourtLoop(_, _, _, _, _)
\* the court loop of generateSinglesRound; selected is a sequence of player records
SinglesCourtLoop(selected, used, courtIdx, numCourts, matches) ==
    LET remaining == Filter(selected, Ids(selected) \ used) IN
    IF courtIdx >= numCourts \/ Len(remaining) < 2 THEN matches
    ELSE LET player1 == remaining[1]
             sameGender == Filter(Tail(remaining),
                                  {p.id : p \in {q \in Range(Tail(remaining)) :
                                                   q.gender = player1.gender}})
         IN  IF sameGender = <<>>
             THEN SinglesCourtLoop(selected, used \cup {player1.id}, courtIdx, numCourts, matches)
             ELSE LET bestOpponent == ClosestRating(Tail(sameGender), player1, sameGender[1])
                  IN  SinglesCourtLoop(selected, used \cup {player1.id, bestOpponent.id},
                          courtIdx + 1, numCourts,
                          Append(matches,
                              [court |-> courtIdx + 1, gameFormat |-> "singles",
                               player1 |-> player1.id, player2 |-> bestOpponent.id,
                               diff |-> Abs(player1.rating - bestOpponent.rating),
                               status |-> "pending", winner |-> "none"]))

\* the ids of the participants of a match
MatchIds(m) ==
    IF m.gameFormat = "singles" THEN {m.player1, m.player2}
    ELSE IF m.gameFormat = "teamed_doubles" THEN {m.team1Id, m.team2Id}
    ELSE Range(m.team1) \cup Range(m.team2)

PlayingIds(matches) == UNION {MatchIds(matches[i]) : i \in DOMAIN matches}

Bump(h, id) == [k \in DOMAIN h \cup {id} |-> IF k = id THEN (IF id \in DOMAIN h THEN h[id] ELSE 0) + 1
                                              ELSE h[k]]

\* who a player meets in the matches of a round (singles)
SinglesOpponentOf(matches, id) ==
    LET mine == {i \in DOMAIN matches : id \in MatchIds(matches[i])}
    IN  IF mine = {} THEN 0
        ELSE LET m == matches[CHOOSE i \in mine : TRUE]
             IN  IF m.player1 = id THEN m.player2 ELSE m.player1

SinglesSatOutStep(s) == [s EXCEPT !.roundsSatOut = @ + 1]

\* updatePlayerStatsForSinglesRound
updatePlayerStatsForSinglesRound(playerStats, presentPlayers, matches, roundIndex) ==
    [id \in DOMAIN playerStats |->
        IF id \notin Ids(presentPlayers) THEN playerStats[id]
        ELSE IF id \in PlayingIds(matches)
        THEN [playerStats[id] EXCEPT !.roundsPlayed = @ + 1,
                                     !.lastPlayedRound = roundIndex,
                                     !.opponents = Bump(@, SinglesOpponentOf(matches, id))]
        ELSE SinglesSatOutStep(playerStats[id])]

\* generateSinglesRound: the set of possible [matches, stats] results
generateSinglesRound(presentPlayers, numCourts, playerStats, currentRoundIndex) ==
    LET updatedStats == SinglesInitializePlayerStats(playerStats, presentPlayers)
        maxPlayersPerRound == numCourts * 2
    IN  {LET sel == [i \in DOMAIN order |-> ById(presentPlayers, order[i])]
             matches == SinglesCourtLoop(sel, {}, 0, numCourts, <<>>)
         IN  [matches |-> matches,
              stats |-> updatePlayerStatsForSinglesRound(updatedStats, presentPlayers,
                                                         matches, currentRoundIndex)] :
         order \in SinglesSelectPlayersForRound(presentPlayers, updatedStats,
                                                maxPlayersPerRound, currentRoundIndex)}



(* ----------------------- doublesScheduler.js -------------------------- *)
FemaleRestInterval == 2

NewDoublesEntry == [roundsPlayed |-> 0, roundsSatOut |-> 0, consecutiveRounds |-> 0,
                    lastPlayedRound |-> -1, teammates |-> <<>>, opponents |-> <<>>]

\* initializePlayerStats (doubles)
DoublesInitializePlayerStats(playerStats, presentPlayers) ==
    [id \in DOMAIN playerStats \cup Ids(presentPlayers) |->
        IF id \in DOMAIN playerStats THEN playerStats[id] ELSE NewDoublesEntry]

\* playerStats[a].teammates.get(b) || 0, with the empty default entry
Teammates(playerStats, a, b) ==
    IF a \in DOMAIN playerStats THEN Count(playerStats[a].teammates, b) ELSE 0

\* the women's priority of the gender-aware selection, without jitter
WomenPriority(st, id, roundIndex, femaleRestInterval) ==
    LET s == st[id]
    IN  s.roundsSatOut * 500
        + (IF s.lastPlayedRound >= 0 THEN (roundIndex - s.lastPlayedRound) * 200 ELSE 1000)
        - (IF s.consecutiveRounds >= femaleRestInterval THEN 2000 ELSE 0)

RECURSIVE Take(_, _)
Take(s, n) == IF n <= 0 \/ s = <<>> THEN <<>> ELSE <<Head(s)>> \o Take(Tail(s), n - 1)

IdsOf(ps) == [i \in DOMAIN ps |-> ps[i].id]

\* a variant that never takes the gender-aware branch
DoublesSelectIgnoringGender(allPlayers, playerStats, maxPlayers, roundIndex, preferMixedDoubles, femaleRestInterval) ==
    IF Len(allPlayers) <= maxPlayers THEN {IdsOf(allPlayers)}
    ELSE LET pr == [id \in Ids(allPlayers) |-> StandardPriorityK(playerStats, id, roundIndex)]
         IN  SortedPrefixes(Ids(allPlayers), pr, Cardinality(DOMAIN playerStats), maxPlayers)

\* selectPlayersForRound (doubles): sequences of player ids
DoublesSelectPlayersForRound(allPlayers, playerStats, maxPlayers, roundIndex, preferMixedDoubles, femaleRestInterval) ==
    IF Len(allPlayers) <= maxPlayers THEN {IdsOf(allPlayers)}
    ELSE IF preferMixedDoubles
    THEN LET women == {q.id : q \in {r \in Range(allPlayers) : r.gender = "female"}}
             men == Ids(allPlayers) \ women
             maxCourts == maxPlayers \div 4
             K == Cardinality(DOMAIN playerStats)
             prW == [id \in women |-> WomenPriority(playerStats, id, roundIndex, femaleRestInterval)]
             prM == [id \in men |-> StandardPriorityK(playerStats, id, roundIndex)]
             maxWomenSlots == Min2(Cardinality(women), maxCourts * 2)
         IN  UNION {{LET result == selectedWomen \o selectedMen
                         extras == Take(IdsOf(Filter(allPlayers, Ids(allPlayers) \ Range(result))),
                                        maxPlayers - Len(result))
                     IN  Take(result \o extras, maxPlayers) :
                     selectedMen \in SortedPrefixes(men, prM, K, maxPlayers - Len(selectedWomen))} :
                    selectedWomen \in SortedPrefixes(women, prW, 1, maxWomenSlots)}
    ELSE LET pr == [id \in Ids(allPlayers) |-> StandardPriorityK(playerStats, id, roundIndex)]
         IN  SortedPrefixes(Ids(allPlayers), pr, Cardinality(DOMAIN playerStats), maxPlayers)

IsMixedTeam(t) == (\E i \in 1..2 : t[i].gender = "female") /\ (\E i \in 1..2 : t[i].gender # "female")

\* twice the rating-gap term of the score alone
GapOnlyScore2(split, playerStats, preferMixedDoubles) ==
    Abs((split.team1[1].rating + split.team1[2].rating)
        - (split.team2[1].rating + split.team2[2].rating))

\* twice the score findBestTeamSplit gives a split (ratings in tenths)
SplitScore2(split, playerStats, preferMixedDoubles) ==
    Abs((split.team1[1].rating + split.team1[2].rating)
        - (split.team2[1].rating + split.team2[2].rating))
    + (Teammates(playerStats, split.team1[1].id, split.team1[2].id)
       + Teammates(playerStats, split.team2[1].id, split.team2[2].id)) * 30
    - (IF LevelIndex(split.team1[1].rating) = LevelIndex(split.team1[2].rating) THEN 6 ELSE 0)
    - (IF LevelIndex(split.team2[1].rating) = LevelIndex(split.team2[2].rating) THEN 6 ELSE 0)
    - (IF preferMixedDoubles /\ IsMixedTeam(split.team1) THEN 80 ELSE 0)
    - (IF preferMixedDoubles /\ IsMixedTeam(split.team2) THEN 80 ELSE 0)

SplitOptions(group) ==
    << [team1 |-> <<group[1], group[2]>>, team2 |-> <<group[3], group[4]>>],
       [team1 |-> <<group[1], group[3]>>, team2 |-> <<group[2], group[4]>>],
       [team1 |-> <<group[1], group[4]>>, team2 |-> <<group[2], group[3]>>] >>

\* findBestTeamSplit (doubles): the first split with the strictly lowest score
findBestTeamSplit(group, playerStats, preferMixedDoubles) ==
    LET opts == SplitOptions(group)
        sc(i) == SplitScore2(opts[i], playerStats, preferMixedDoubles)
        k == CHOOSE x \in 1..3 : \A y \in 1..3 :
                 y # x => (sc(x) < sc(y) \/ (sc(x) = sc(y) /\ x < y))
    IN  opts[k]

\* varietyScore of a candidate without its jitter
VarietyBase(candidate, group, playerStats) ==
    LET v(e) == IF 5 - Teammates(playerStats, e.id, candidate.id) > 0
                THEN 5 - Teammates(playerStats, e.id, candidate.id) ELSE 0
    IN  SumOver([i \in DOMAIN group |-> v(group[i])], DOMAIN group)
        + (IF \A i \in DOMAIN group : canPlayTogether(group[i], candidate) THEN 2 ELSE 0)

RECURSIVE BuildGroups(_, _, _)
\* the groups one attempt of selectBestGroupOfFour can build: a random first
\* member, then one of the three best-scored candidates, each score carrying
\* a jitter of [0, 2)
BuildGroups(group, candidates, playerStats) ==
    IF Len(group) = 4 \/ candidates = {} THEN {group}
    ELSE LET base == [c \in candidates |-> VarietyBase(c, group, playerStats)]
             eligible == IF group = <<>> THEN candidates
                         ELSE {c \in candidates :
                                 Cardinality({d \in candidates : base[d] >= base[c] + 2}) <= 2}
         IN  UNION {BuildGroups(Append(group, c), candidates \ {c}, playerStats) : c \in eligible}

\* selectBestGroupOfFour: every attempt may build the same group, so each
\* buildable group is a possible result of the search
selectBestGroupOfFour(availablePlayers, playerStats) ==
    IF Len(availablePlayers) <= 4 THEN {availablePlayers}
    ELSE BuildGroups(<<>>, Range(availablePlayers), playerStats)

\* a match that is always numbered as the first court
DoublesMatchOnCourtOne(court, split, groupType) ==
    [court |-> 1, gameFormat |-> "doubles",
     team1 |-> IdsOf(split.team1), team2 |-> IdsOf(split.team2),
     diff |-> Abs((split.team1[1].rating + split.team1[2].rating)
                  - (split.team2[1].rating + split.team2[2].rating)),
     skillLevel |-> groupType, status |-> "pending", winner |-> "none"]

DoublesMatch(court, split, groupType) ==
    [court |-> court, gameFormat |-> "doubles",
     team1 |-> IdsOf(split.team1), team2 |-> IdsOf(split.team2),
     diff |-> Abs((split.team1[1].rating + split.team1[2].rating)
                  - (split.team2[1].rating + split.team2[2].rating)),
     skillLevel |-> groupType, status |-> "pending", winner |-> "none"]

RECURSIVE BalancedLoop(_, _, _, _, _, _, _, _)
BalancedLoop(availablePlayers, playerStats, actualCourts, startingCourtIndex, groupType, preferMixedDoubles, courtIdx, matches) ==
    LET remaining == Filter(availablePlayers, Ids(availablePlayers) \ PlayingIds(matches)) IN
    IF courtIdx >= actualCourts \/ Len(remaining) < 4 THEN {matches}
    ELSE UNION {IF Len(group) < 4 THEN {matches}
                ELSE BalancedLoop(availablePlayers, playerStats, actualCourts, startingCourtIndex,
                        groupType, preferMixedDoubles, courtIdx + 1,
                        Append(matches,
                               DoublesMatch(startingCourtIndex + courtIdx,
                                            findBestTeamSplit(group, playerStats, preferMixedDoubles),
                                            groupType))) :
                group \in selectBestGroupOfFour(remaining, playerStats)}

\* the court loop stopping after its first court
createFirstCourtOnly(playersThisRound, playerStats, maxCourts, startingCourtIndex, groupType, preferMixedDoubles) ==
    BalancedLoop(playersThisRound, playerStats,
                 Min2(1, Len(playersThisRound) \div 4), startingCourtIndex, groupType,
                 preferMixedDoubles, 0, <<>>)

\* createBalancedMatches: the possible match lists
createBalancedMatches(playersThisRound, playerStats, maxCourts, startingCourtIndex, groupType, preferMixedDoubles) ==
    BalancedLoop(playersThisRound, playerStats,
                 Min2(maxCourts, Len(playersThisRound) \div 4), startingCourtIndex, groupType,
                 preferMixedDoubles, 0, <<>>)

RecordsOf(ps, ids) == [i \in DOMAIN ids |-> ById(ps, ids[i])]

\* generateMatchesForGroup
generateMatchesForGroup(groupPlayers, playerStats, maxCourts, startingCourtIndex, roundIndex, groupType, preferMixedDoubles, femaleRestInterval) ==
    UNION {createBalancedMatches(RecordsOf(groupPlayers, sel), playerStats, maxCourts,
                                 startingCourtIndex, groupType, preferMixedDoubles) :
           sel \in DoublesSelectPlayersForRound(groupPlayers, playerStats, maxCourts * 4,
                                                roundIndex, preferMixedDoubles, femaleRestInterval)}


LevelLabel(level) ==
    <<"Beginner", "Advanced Beginner", "Intermediate", "Advanced Intermediate",
      "Advanced", "Expert", "Expert Pro", "Mixed">>[level + 1]

RECURSIVE SkillGroupLoop(_, _, _, _, _, _, _, _, _)
\* the skillGroups.forEach of generateRoundRobinRound: a group of four or more
\* gets courtsPerGroup courts, plus one while extra courts are left
SkillGroupLoop(skillGroups, i, courtsPerGroup, extraCourts, playerStats, roundIndex, preferMixedDoubles, femaleRestInterval, matches) ==
    IF i > Len(skillGroups) THEN {matches}
    ELSE IF Len(skillGroups[i].players) < 4
    THEN SkillGroupLoop(skillGroups, i + 1, courtsPerGroup, extraCourts, playerStats, roundIndex,
                        preferMixedDoubles, femaleRestInterval, matches)
    ELSE LET groupCourts == courtsPerGroup + (IF extraCourts > 0 THEN 1 ELSE 0)
             left == IF extraCourts > 0 THEN extraCourts - 1 ELSE extraCourts
         IN  UNION {SkillGroupLoop(skillGroups, i + 1, courtsPerGroup, left, playerStats,
                                   roundIndex, preferMixedDoubles, femaleRestInterval,
                                   matches \o gm) :
                    gm \in generateMatchesForGroup(skillGroups[i].players, playerStats, groupCourts,
                               Len(matches) + 1, roundIndex, LevelLabel(skillGroups[i].level),
                               preferMixedDoubles, femaleRestInterval)}

\* "Only using x of y courts": the remaining players fill the courts left over
OverflowFill(matches, presentPlayers, numCourts, playerStats, preferMixedDoubles) ==
    LET remainingPlayers == Filter(presentPlayers, Ids(presentPlayers) \ PlayingIds(matches))
        remainingCourts == numCourts - Len(matches)
    IN  IF Len(matches) < numCourts /\ Len(remainingPlayers) >= 4 /\ remainingCourts > 0
        THEN {matches \o em :
              em \in createBalancedMatches(remainingPlayers, playerStats, remainingCourts,
                                           Len(matches) + 1, "Mixed (Overflow)", preferMixedDoubles)}
        ELSE {matches}

\* groundTruthSatOut: the non-empty previous rounds a player is in no match of
GroundTruthSatOut(previousRounds, id) ==
    Cardinality({r \in DOMAIN previousRounds :
                    previousRounds[r] # <<>> /\ id \notin PlayingIds(previousRounds[r])})

RECURSIVE InsertDesc(_, _, _)
InsertDesc(sorted, x, key) ==
    IF sorted = <<>> THEN <<x>>
    ELSE IF key[Head(sorted).id] >= key[x.id] THEN <<Head(sorted)>> \o InsertDesc(Tail(sorted), x, key)
    ELSE <<x>> \o sorted

RECURSIVE StableSortDesc(_, _)
\* Array.prototype.sort((a, b) => key(b) - key(a)): stable, descending
StableSortDesc(s, key) ==
    IF s = <<>> THEN <<>>
    ELSE InsertDesc(StableSortDesc(SubSeq(s, 1, Len(s) - 1), key), s[Len(s)], key)

\* the participants of the matches in scan order: <<match index, player id>>
RECURSIVE ScanOrder(_, _)
ScanOrder(matches, i) ==
    IF i > Len(matches) THEN <<>>
    ELSE [k \in 1..(Len(matches[i].team1) + Len(matches[i].team2)) |->
             <<i, (matches[i].team1 \o matches[i].team2)[k]>>] \o ScanOrder(matches, i + 1)

\* a variant without the rating test: any participant with a lower count is eligible
SwapScoreAnyRating(presentPlayers, gt, pid, needsIn) ==
    LET ratingDiff == Abs(ById(presentPlayers, pid).rating - needsIn.rating)
    IN  IF gt[pid] >= gt[needsIn.id] THEN -1
        ELSE ratingDiff + gt[pid]

\* swapScore of taking participant p out for needsIn, or -1 when p is not eligible
SwapScore(presentPlayers, gt, pid, needsIn) ==
    LET ratingDiff == Abs(ById(presentPlayers, pid).rating - needsIn.rating)
    IN  IF gt[pid] >= gt[needsIn.id] \/ ratingDiff > 5 THEN -1
        ELSE ratingDiff + gt[pid]

\* one pass of fairnessCandidates.forEach
SwapIn(matches, presentPlayers, gt, needsIn, playerStats, preferMixedDoubles) ==
    LET scan == ScanOrder(matches, 1)
        ok == {k \in DOMAIN scan : SwapScore(presentPlayers, gt, scan[k][2], needsIn) >= 0}
        sc(k) == SwapScore(presentPlayers, gt, scan[k][2], needsIn)
    IN  IF ok = {} THEN matches
        ELSE LET k == CHOOSE x \in ok : \A y \in ok :
                           y # x => (sc(x) < sc(y) \/ (sc(x) = sc(y) /\ x < y))
                 mi == scan[k][1]
                 out == scan[k][2]
                 m == matches[mi]
                 four == m.team1 \o m.team2
                 allFour == [j \in 1..Len(four) |->
                                IF four[j] = out THEN needsIn ELSE ById(presentPlayers, four[j])]
                 rebalanced == findBestTeamSplit(allFour, playerStats, preferMixedDoubles)
             IN  [matches EXCEPT ![mi] =
                     [@ EXCEPT !.team1 = IdsOf(rebalanced.team1),
                               !.team2 = IdsOf(rebalanced.team2),
                               !.diff = Abs((rebalanced.team1[1].rating + rebalanced.team1[2].rating)
                                   - (rebalanced.team2[1].rating + rebalanced.team2[2].rating))]]

RECURSIVE SweepLoop(_, _, _, _, _, _)
SweepLoop(matches, presentPlayers, gt, cands, playerStats, preferMixedDoubles) ==
    IF cands = <<>> THEN matches
    ELSE SweepLoop(SwapIn(matches, presentPlayers, gt, Head(cands), playerStats, preferMixedDoubles),
                   presentPlayers, gt, Tail(cands), playerStats, preferMixedDoubles)

\* a variant without the average filter: every sitting player is a candidate
FairnessCandidatesUnfiltered(matches, presentPlayers, previousRounds) ==
    LET gt == [id \in Ids(presentPlayers) |-> GroundTruthSatOut(previousRounds, id)]
    IN  StableSortDesc(Filter(presentPlayers, Ids(presentPlayers) \ PlayingIds(matches)), gt)

\* the sitting players whose ground-truth sat-out count is above the average, most overdue first
FairnessCandidates(matches, presentPlayers, previousRounds) ==
    LET gt == [id \in Ids(presentPlayers) |-> GroundTruthSatOut(previousRounds, id)]
        totalSatOut == SumOver(gt, Ids(presentPlayers))
        fsSittingOut == Filter(presentPlayers, Ids(presentPlayers) \ PlayingIds(matches))
    IN  StableSortDesc(Filter(fsSittingOut,
                              {id \in Ids(presentPlayers) : gt[id] * Len(presentPlayers) > totalSatOut}),
                       gt)

\* GLOBAL FAIRNESS SWEEP of generateRoundRobinRound
FairnessSweep(matches, presentPlayers, previousRounds, playerStats, preferMixedDoubles) ==
    IF previousRounds = <<>> THEN matches
    ELSE SweepLoop(matches, presentPlayers,
                   [id \in Ids(presentPlayers) |-> GroundTruthSatOut(previousRounds, id)],
                   FairnessCandidates(matches, presentPlayers, previousRounds),
                   playerStats, preferMixedDoubles)

RECURSIVE BumpAll(_, _)
BumpAll(h, ids) == IF ids = <<>> THEN h ELSE BumpAll(Bump(h, Head(ids)), Tail(ids))

RECURSIVE PartnersIn(_, _, _)
\* the teammates of a player over the matches of the round, one entry per match
PartnersIn(matches, id, i) ==
    IF i > Len(matches) THEN <<>>
    ELSE LET m == matches[i]
             mate(t) == IF Len(t) = 2 /\ id \in Range(t)
                        THEN (IF t[1] = id THEN <<t[2]>> ELSE <<t[1]>>) ELSE <<>>
         IN  mate(m.team1) \o mate(m.team2) \o PartnersIn(matches, id, i + 1)

RECURSIVE RivalsIn(_, _, _)
RivalsIn(matches, id, i) ==
    IF i > Len(matches) THEN <<>>
    ELSE LET m == matches[i]
         IN  (IF id \in Range(m.team1) THEN m.team2 ELSE <<>>)
             \o (IF id \in Range(m.team2) THEN m.team1 ELSE <<>>)
             \o RivalsIn(matches, id, i + 1)

DoublesSatOutStep(s) == [s EXCEPT !.roundsSatOut = @ + 1, !.consecutiveRounds = 0]

\* updatePlayerStatsForRound
updatePlayerStatsForRound(playerStats, presentPlayers, matches, roundIndex) ==
    [id \in DOMAIN playerStats |->
        IF id \notin Ids(presentPlayers) THEN playerStats[id]
        ELSE IF id \in PlayingIds(matches)
        THEN [playerStats[id] EXCEPT !.roundsPlayed = @ + 1,
                                     !.lastPlayedRound = roundIndex,
                                     !.consecutiveRounds = @ + 1,
                                     !.teammates = BumpAll(@, PartnersIn(matches, id, 1)),
                                     !.opponents = BumpAll(@, RivalsIn(matches, id, 1))]
        ELSE DoublesSatOutStep(playerStats[id])]

\* the matches of generateRoundRobinRound before its fairness sweep
RoundRobinMatches(presentPlayers, numCourts, updatedStats, currentRoundIndex, separateBySkill, preferMixedDoubles, femaleRestInterval) ==
    LET skillGroups == separatePlayersBySkill(presentPlayers, 4)
        nGroups == IF Len(skillGroups) > 1 THEN Len(skillGroups) ELSE 1
    IN  IF separateBySkill /\ Len(presentPlayers) >= 8
        THEN UNION {OverflowFill(m, presentPlayers, numCourts, updatedStats, preferMixedDoubles) :
                    m \in SkillGroupLoop(skillGroups, 1, numCourts \div nGroups,
                                         numCourts % nGroups, updatedStats, currentRoundIndex,
                                         preferMixedDoubles, femaleRestInterval, <<>>)}
        ELSE generateMatchesForGroup(presentPlayers, updatedStats, numCourts, 1,
                                     currentRoundIndex, "Mixed", preferMixedDoubles,
                                     femaleRestInterval)

\* generateRoundRobinRound: the set of possible [matches, stats] results
generateRoundRobinRound(presentPlayers, numCourts, playerStats, currentRoundIndex, separateBySkill, preferMixedDoubles, femaleRestInterval, previousRounds) ==
    LET updatedStats == DoublesInitializePlayerStats(playerStats, presentPlayers)
    IN  {LET matches == FairnessSweep(g, presentPlayers, previousRounds, updatedStats,
                                      preferMixedDoubles)
         IN  [matches |-> matches,
              stats |-> updatePlayerStatsForRound(updatedStats, presentPlayers, matches,
                                                  currentRoundIndex)] :
         g \in RoundRobinMatches(presentPlayers, numCourts, updatedStats, currentRoundIndex,
                                 separateBySkill, preferMixedDoubles, femaleRestInterval)}

(* ------------------- teamedDoublesScheduler.js ------------------------ *)
NewTeamEntry == [roundsPlayed |-> 0, roundsSatOut |-> 0, lastPlayedRound |-> -1,
                 opponents |-> <<>>]

\* generateTeamedDoublesRound, "Initialise stats for any new teams"
TeamedInitializeStats(teamStats, allTeams) ==
    [id \in DOMAIN teamStats \cup Ids(allTeams) |->
        IF id \in DOMAIN teamStats THEN teamStats[id] ELSE NewTeamEntry]

\* selectTeamsForRound: sequences of team ids
selectTeamsForRound(allTeams, teamStats, maxTeams, roundIndex) ==
    IF Len(allTeams) <= maxTeams THEN {[i \in DOMAIN allTeams |-> allTeams[i].id]}
    ELSE LET pr == [id \in Ids(allTeams) |-> StandardPriorityK(teamStats, id, roundIndex)]
         IN  SortedPrefixes(Ids(allTeams), pr, Cardinality(DOMAIN teamStats), maxTeams)

\* adjustedDiff of createMatchesForGender, in tenths
AdjustedDiff(teamStats, a, b) ==
    Abs(a.avgRating - b.avgRating) + Count(teamStats[a.id].opponents, b.id) * 20

\* the first pair (i < j, row by row) with the strictly smallest adjustedDiff
BestMatch(teamStats, remainingTeams) ==
    LET pairs == {ij \in (DOMAIN remainingTeams) \X (DOMAIN remainingTeams) : ij[1] < ij[2]}
        d(ij) == AdjustedDiff(teamStats, remainingTeams[ij[1]], remainingTeams[ij[2]])
        before(x, y) == x[1] < y[1] \/ (x[1] = y[1] /\ x[2] < y[2])
    IN  CHOOSE ij \in pairs : \A o \in pairs :
            o # ij => (d(ij) < d(o) \/ (d(ij) = d(o) /\ before(ij, o)))

RECURSIVE TeamedPairLoop(_, _, _, _, _)
\* the while loop of createMatchesForGender; matches holds the matches of the
\* genders already served, so Len(matches) is courtIdx
TeamedPairLoop(teamStats, remainingTeams, numCourts, label, matches) ==
    IF Len(remainingTeams) < 2 \/ Len(matches) >= numCourts THEN matches
    ELSE LET ij == BestMatch(teamStats, remainingTeams)
             a == remainingTeams[ij[1]]
             b == remainingTeams[ij[2]]
         IN  TeamedPairLoop(teamStats, Filter(remainingTeams, Ids(remainingTeams) \ {a.id, b.id}),
                 numCourts, label,
                 Append(matches,
                     [court |-> Len(matches) + 1, gameFormat |-> "teamed_doubles",
                      team1Id |-> a.id, team2Id |-> b.id, teamGender |-> a.gender,
                      diff |-> Abs(a.avgRating - b.avgRating),
                      status |-> "pending", winner |-> "none"]))

\* a variant that hands every team to every gender pass
GenderTeamsAll(allTeams, g) == allTeams

GenderTeams(allTeams, g) == Filter(allTeams, {t.id : t \in {u \in Range(allTeams) : u.gender = g}})

\* createMatchesForGender: the possible match lists after serving one gender
createMatchesForGender(allTeams, g, teamStats, numCourts, roundIndex, matches) ==
    LET genderTeams == GenderTeams(allTeams, g)
        availableCourts == numCourts - Len(matches)
        maxTeamsForGender == Min2(Len(genderTeams), availableCourts * 2)
    IN  IF Len(genderTeams) < 2 THEN {matches}
        ELSE {TeamedPairLoop(teamStats, [i \in DOMAIN sel |-> ById(allTeams, sel[i])],
                             numCourts, g, matches) :
              sel \in selectTeamsForRound(genderTeams, teamStats, maxTeamsForGender, roundIndex)}

TeamedOpponentOf(matches, id) ==
    LET m == matches[CHOOSE i \in DOMAIN matches : id \in MatchIds(matches[i])]
    IN  IF m.team1Id = id THEN m.team2Id ELSE m.team1Id

\* a sitting team left uncounted
TeamSatOutForgotten(s) == s

TeamSatOutStep(s) == [s EXCEPT !.roundsSatOut = @ + 1]

\* updateTeamStatsForRound
updateTeamStatsForRound(teamStats, allTeams, matches, roundIndex) ==
    [id \in DOMAIN teamStats |->
        IF id \notin Ids(allTeams) THEN teamStats[id]
        ELSE IF id \in PlayingIds(matches)
        THEN [teamStats[id] EXCEPT !.roundsPlayed = @ + 1,
                                   !.lastPlayedRound = roundIndex,
                                   !.opponents = Bump(@, TeamedOpponentOf(matches, id))]
        ELSE TeamSatOutStep(teamStats[id])]

\* generateTeamedDoublesRound: the set of possible [matches, stats] results
generateTeamedDoublesRound(allTeams, numCourts, teamStats, currentRoundIndex) ==
    LET st == TeamedInitializeStats(teamStats, allTeams)
        afterMale == createMatchesForGender(allTeams, "male_male", st, numCourts,
                                            currentRoundIndex, <<>>)
        afterFemale == UNION {createMatchesForGender(allTeams, "female_female", st, numCourts,
                                                     currentRoundIndex, m) : m \in afterMale}
        afterMixed == UNION {createMatchesForGender(allTeams, "mixed", st, numCourts,
                                                    currentRoundIndex, m) : m \in afterFemale}
    IN  {[matches |-> m,
          stats |-> updateTeamStatsForRound(st, allTeams, m, currentRoundIndex)] :
         m \in afterMixed}

(* ------------------- kingOfCourtScheduler.js ------------------- *)

getCourtPoints(courtIndexInHierarchy, courtsInHierarchy) ==
    (courtsInHierarchy - courtIndexInHierarchy) * 2

CourtLevel(courtIdx) == IF courtIdx = 0 THEN "KING" ELSE "Level"

\* findBestTeamSplit (King of Court): the first split with the strictly smallest rating gap
KOTfindBestTeamSplit(group) ==
    LET opts == SplitOptions(group)
        d(k) == Abs((opts[k].team1[1].rating + opts[k].team1[2].rating)
                    - (opts[k].team2[1].rating + opts[k].team2[2].rating))
    IN  opts[CHOOSE k \in 1..3 : \A j \in 1..3 : d(k) < d(j) \/ (d(k) = d(j) /\ k <= j)]

NewKOTEntry ==
    [totalPoints |-> 0, court1Wins |-> 0, currentCourt |-> 0, courtHistory |-> <<>>,
     roundsPlayed |-> 0, roundsSatOut |-> 0, lastPlayedRound |-> -1]

\* initializeKingOfCourtStats and initializeKingOfCourtTeamStats
initializeKingOfCourtStats(kotStats, present) ==
    [id \in (DOMAIN kotStats) \cup Ids(present) |->
        IF id \in DOMAIN kotStats THEN kotStats[id] ELSE NewKOTEntry]

\* the side of a match an id is on: "team1", "team2" or "none"
SideOf(m, id) ==
    IF m.gameFormat = "teamed_doubles"
    THEN (IF m.team1Id = id THEN "team1" ELSE IF m.team2Id = id THEN "team2" ELSE "none")
    ELSE (IF id \in Range(m.team1) THEN "team1" ELSE IF id \in Range(m.team2) THEN "team2" ELSE "none")

WinnersOf(match) ==
    IF match.gameFormat = "teamed_doubles"
    THEN {IF match.winner = "team1" THEN match.team1Id ELSE match.team2Id}
    ELSE Range(IF match.winner = "team1" THEN match.team1 ELSE match.team2)

\* a King-court win credited on every court
KOTWinStepAnyCourt(s, match) ==
    [s EXCEPT !.totalPoints = @ + match.pointsForWin, !.court1Wins = @ + 1]

KOTWinStep(s, match) ==
    [s EXCEPT !.totalPoints = @ + match.pointsForWin,
              !.court1Wins = @ + (IF match.courtLevel = "KING" THEN 1 ELSE 0)]

\* updateKOTStats and updateKOTTeamStats
updateKOTStats(kotStats, match) ==
    IF match.status # "completed" \/ match.winner = "none" THEN kotStats
    ELSE [id \in DOMAIN kotStats |->
             IF id \in WinnersOf(match) THEN KOTWinStep(kotStats[id], match) ELSE kotStats[id]]

\* the priority of selectPlayersForKOTRound without its jitter, times the number of entries
KOTPriorityK(st, id, roundIndex) ==
    LET K == Cardinality(DOMAIN st)
        s == st[id]
        total == SumOver([i \in DOMAIN st |-> st[i].roundsPlayed], DOMAIN st)
        since == IF s.lastPlayedRound >= 0 THEN (roundIndex - s.lastPlayedRound) * 200 ELSE 1000
        catchup == IF roundIndex > 0 THEN 100 * (total - K * s.roundsPlayed)
                                   ELSE 0 - 100 * K * s.roundsPlayed
    IN  K * (s.roundsSatOut * 500 + since) + (IF catchup > 0 THEN catchup ELSE 0)

\* selectPlayersForKOTRound: sequences of player ids
selectPlayersForKOTRound(allPlayers, kotStats, maxPlayers, roundIndex) ==
    IF Len(allPlayers) <= maxPlayers THEN {IdsOf(allPlayers)}
    ELSE LET pr == [id \in Ids(allPlayers) |-> KOTPriorityK(kotStats, id, roundIndex)]
         IN  SortedPrefixes(Ids(allPlayers), pr, Cardinality(DOMAIN kotStats), maxPlayers)

\* the priority of selectTeamsForKOTRound; it has no jitter
KOTTeamPriority(st, id, roundIndex) ==
    st[id].roundsSatOut * 500 + (roundIndex - st[id].lastPlayedRound) * 100
    + (100 - st[id].roundsPlayed) * 10

\* selectTeamsForKOTRound: the sequence of team ids
selectTeamsForKOTRound(allTeams, kotTeamStats, maxTeams, roundIndex) ==
    IF Len(allTeams) <= maxTeams THEN IdsOf(allTeams)
    ELSE Take(IdsOf(StableSortDesc(allTeams,
                  [id \in Ids(allTeams) |-> KOTTeamPriority(kotTeamStats, id, roundIndex)])),
              maxTeams)

\* playerResults / teamResults of the assignment: won, lastCourt and totalPoints of an id
LastResult(id, kotStats, lastRound, numCourts, startingCourtIndex) ==
    LET done == {i \in DOMAIN lastRound :
                    lastRound[i].status = "completed" /\ SideOf(lastRound[i], id) # "none"}
        last == CHOOSE i \in done : \A j \in done : j <= i
    IN  [id |-> id,
         won |-> \E i \in done : lastRound[i].winner = SideOf(lastRound[i], id),
         lastCourt |-> IF done = {} THEN startingCourtIndex + numCourts - 1
                       ELSE lastRound[last].court,
         totalPoints |-> kotStats[id].totalPoints]

\* the comparator of playerResults.sort: court ascending, winners first, points descending
ResultBefore(a, b) ==
    \/ a.lastCourt < b.lastCourt
    \/ a.lastCourt = b.lastCourt /\ a.won /\ ~b.won
    \/ a.lastCourt = b.lastCourt /\ a.won = b.won /\ a.totalPoints > b.totalPoints

\* the stable sort of the results
SortResults(res) ==
    LET pos(i) == 1 + Cardinality({j \in DOMAIN res :
                        ResultBefore(res[j], res[i])
                        \/ (~ResultBefore(res[i], res[j]) /\ j < i)})
    IN  [k \in DOMAIN res |-> res[CHOOSE i \in DOMAIN res : pos(i) = k]]

\* the addition without its "already assigned" test
AddAssignedToo(courtPlayers, sortedPlayers, toAdd) == courtPlayers \o toAdd

RECURSIVE AddIfNotAssigned(_, _, _)
AddIfNotAssigned(courtPlayers, sortedPlayers, toAdd) ==
    IF toAdd = <<>> THEN courtPlayers
    ELSE AddIfNotAssigned(
            IF Head(toAdd) \in Range(sortedPlayers) \cup Range(courtPlayers)
            THEN courtPlayers ELSE Append(courtPlayers, Head(toAdd)),
            sortedPlayers, Tail(toAdd))

ResultIds(res, court, won) ==
    LET pick(r) == r.lastCourt = court /\ r.won = won
        sel == SelectSeq(res, pick)
    IN  [i \in DOMAIN sel |-> sel[i].id]

\* a court loop that moves nobody: everybody in the order of the sorted results
AssignLoopNobodyMoves(res, numCourts, startingCourtIndex, perCourt, moving, courtIdx, sortedPlayers) ==
    [i \in DOMAIN res |-> res[i].id]

RECURSIVE AssignLoop(_, _, _, _, _, _, _)
\* the court loop of assignPlayersToCourts (perCourt 4, moving 2) and of
\* assignTeamsToCourts (perCourt 2, moving 1)
AssignLoop(res, numCourts, startingCourtIndex, perCourt, moving, courtIdx, sortedPlayers) ==
    IF courtIdx >= numCourts THEN sortedPlayers
    ELSE LET courtNumber == startingCourtIndex + courtIdx
             winnersFromThisCourt == ResultIds(res, courtNumber, TRUE)
             winnersFromBelowCourt == IF courtIdx < numCourts - 1
                                      THEN Take(ResultIds(res, courtNumber + 1, TRUE), moving)
                                      ELSE <<>>
             losersFromThisCourt == ResultIds(res, courtNumber, FALSE)
             losersFromAboveCourt == IF courtIdx > 0
                                     THEN Take(ResultIds(res, courtNumber - 1, FALSE), moving)
                                     ELSE <<>>
             c1 == AddIfNotAssigned(<<>>, sortedPlayers, winnersFromThisCourt)
             c2 == AddIfNotAssigned(c1, sortedPlayers, losersFromAboveCourt)
             c3 == AddIfNotAssigned(c2, sortedPlayers, winnersFromBelowCourt)
             c4 == AddIfNotAssigned(c3, sortedPlayers, losersFromThisCourt)
             available == AddIfNotAssigned(<<>>, sortedPlayers \o c4,
                                           [i \in DOMAIN res |-> res[i].id])
             courtPlayers == IF Len(c4) < perCourt
                             THEN c4 \o Take(available, perCourt - Len(c4)) ELSE c4
         IN  AssignLoop(res, numCourts, startingCourtIndex, perCourt, moving, courtIdx + 1,
                        sortedPlayers \o Take(courtPlayers, perCourt))

\* assignPlayersToCourts / assignTeamsToCourts: the ids in court order
AssignToCourts(group, kotStats, previousRounds, numCourts, startingCourtIndex, perCourt, moving) ==
    IF previousRounds = <<>> THEN group
    ELSE LET lastRound == previousRounds[Len(previousRounds)]
             res == SortResults([i \in DOMAIN group |->
                        LastResult(group[i], kotStats, lastRound, numCourts, startingCourtIndex)])
             sorted == AssignLoop(res, numCourts, startingCourtIndex, perCourt, moving, 0, <<>>)
         IN  AddIfNotAssigned(sorted, <<>>, group)

assignPlayersToCourts(groupPlayers, kotStats, previousRounds, numCourts, startingCourtIndex) ==
    AssignToCourts(groupPlayers, kotStats, previousRounds, numCourts, startingCourtIndex, 4, 2)

assignTeamsToCourts(groupTeams, kotTeamStats, previousRounds, numCourts, startingCourtIndex) ==
    AssignToCourts(groupTeams, kotTeamStats, previousRounds, numCourts, startingCourtIndex, 2, 1)

RECURSIVE Shuffles(_)
\* array.sort(() => Math.random() - 0.5): any order can come out
Shuffles(S) ==
    IF S = {} THEN {<<>>}
    ELSE UNION {{<<x>> \o t : t \in Shuffles(S \ {x})} : x \in S}

\* a placement that does not record the round it happened in
KOTPlayStepWithoutRound(s, courtNumber, roundIndex) ==
    [s EXCEPT !.currentCourt = courtNumber,
              !.courtHistory = Append(@, courtNumber),
              !.roundsPlayed = @ + 1]

KOTPlayStep(s, courtNumber, roundIndex) ==
    [s EXCEPT !.currentCourt = courtNumber,
              !.courtHistory = Append(@, courtNumber),
              !.roundsPlayed = @ + 1,
              !.lastPlayedRound = roundIndex]

KOTSatOutStep(s) == [s EXCEPT !.roundsSatOut = @ + 1]

\* the stats after the court loop and the sitting-out marks of a group
KOTGroupStats(kotStats, group, toAssign, pool, actualCourts, perCourt, startingCourtIndex, roundIndex) ==
    [id \in DOMAIN kotStats |->
        LET at == {k \in 1..(actualCourts * perCourt) : k <= Len(pool) /\ pool[k] = id}
            played == IF at = {} THEN kotStats[id]
                      ELSE KOTPlayStep(kotStats[id],
                               startingCourtIndex + (((CHOOSE k \in at : TRUE) - 1) \div perCourt),
                               roundIndex)
        IN  IF id \in Range(group) /\ id \notin Range(toAssign) THEN KOTSatOutStep(played)
            ELSE played]

KOTMatch(groupPlayers, four, courtIdx, courtNumber, groupLabel, courtsInHierarchy) ==
    LET teamSplit == KOTfindBestTeamSplit([k \in 1..4 |-> ById(groupPlayers, four[k])])
    IN  [court |-> courtNumber, courtLevel |-> CourtLevel(courtIdx), gameFormat |-> "doubles",
         team1 |-> IdsOf(teamSplit.team1), team2 |-> IdsOf(teamSplit.team2),
         diff |-> Abs((teamSplit.team1[1].rating + teamSplit.team1[2].rating)
                      - (teamSplit.team2[1].rating + teamSplit.team2[2].rating)),
         skillLevel |-> groupLabel, pointsForWin |-> getCourtPoints(courtIdx, courtsInHierarchy),
         status |-> "pending", winner |-> "none"]

\* generateKOTMatchesForGroup: the possible [matches, stats] results
generateKOTMatchesForGroup(groupPlayers, kotStats, numCourts, startingCourtIndex, roundIndex, previousRounds, groupLabel, courtsInHierarchy) ==
    LET actualCourts == Min2(numCourts, Len(groupPlayers) \div 4)
        maxPlayersThisRound == actualCourts * 4
        group == IdsOf(groupPlayers)
        selections == IF Len(groupPlayers) > maxPlayersThisRound
                      THEN selectPlayersForKOTRound(groupPlayers, kotStats, maxPlayersThisRound,
                                                    roundIndex)
                      ELSE {group}
        pools(playersToAssign) ==
            IF roundIndex = 0 THEN Shuffles(Range(playersToAssign))
            ELSE {assignPlayersToCourts(playersToAssign, kotStats, previousRounds, actualCourts,
                                        startingCourtIndex)}
    IN  UNION {{[matches |-> [c \in 1..actualCourts |->
                                 KOTMatch(groupPlayers, SubSeq(pool, (c - 1) * 4 + 1, c * 4), c - 1,
                                          startingCourtIndex + c - 1, groupLabel, courtsInHierarchy)],
                 stats |-> KOTGroupStats(kotStats, group, playersToAssign, pool, actualCourts, 4,
                                         startingCourtIndex, roundIndex)] :
                pool \in pools(playersToAssign)} :
               playersToAssign \in selections}

RECURSIVE KOTSkillLoop(_, _, _, _, _, _, _, _)
\* skillGroups.forEach of generateKingOfCourtRound, then the overflow courts;
\* Len(matches) + 1 is globalCourtIndex
KOTSkillLoop(skillGroups, i, numCourts, roundIndex, previousRounds, matches, kotStats, allLeftovers) ==
    IF i > Len(skillGroups)
    THEN LET remainingCourts == numCourts - Len(matches)
             overflowCourts == Min2(Len(allLeftovers) \div 4, remainingCourts)
         IN  IF remainingCourts > 0 /\ Len(allLeftovers) >= 4 /\ overflowCourts > 0
             THEN {[matches |-> matches \o r.matches, stats |-> r.stats] :
                   r \in generateKOTMatchesForGroup(allLeftovers, kotStats, overflowCourts,
                             Len(matches) + 1, roundIndex, previousRounds, "Mixed (Overflow)",
                             overflowCourts)}
             ELSE {[matches |-> matches, stats |-> kotStats]}
    ELSE LET g == skillGroups[i]
             actualCourts == Min2(Len(g.players) \div 4, numCourts - Len(matches))
         IN  IF actualCourts > 0
             THEN UNION {KOTSkillLoop(skillGroups, i + 1, numCourts, roundIndex, previousRounds,
                             matches \o r.matches, r.stats,
                             allLeftovers \o Filter(g.players, Ids(g.players) \ PlayingIds(r.matches))) :
                         r \in generateKOTMatchesForGroup(g.players, kotStats, actualCourts,
                                   Len(matches) + 1, roundIndex, previousRounds,
                                   LevelLabel(g.level), actualCourts)}
             ELSE KOTSkillLoop(skillGroups, i + 1, numCourts, roundIndex, previousRounds,
                               matches, kotStats, allLeftovers \o g.players)

\* generateKingOfCourtRound: the possible [matches, stats] results
generateKingOfCourtRound(presentPlayers, numCourts, kotStats, currentRoundIndex, previousRounds, separateBySkill) ==
    LET updatedStats == initializeKingOfCourtStats(kotStats, presentPlayers)
    IN  IF separateBySkill /\ Len(presentPlayers) >= 8
        THEN KOTSkillLoop(separatePlayersBySkill(presentPlayers, numCourts), 1, numCourts,
                          currentRoundIndex, previousRounds, <<>>, updatedStats, <<>>)
        ELSE generateKOTMatchesForGroup(presentPlayers, updatedStats, numCourts, 1,
                                        currentRoundIndex, previousRounds, "Mixed", numCourts)

KOTTeamMatch(allTeams, two, courtIdx, courtNumber, courtsInHierarchy) ==
    LET a == ById(allTeams, two[1])
        b == ById(allTeams, two[2])
    IN  [court |-> courtNumber, courtLevel |-> CourtLevel(courtIdx),
         gameFormat |-> "teamed_doubles", team1Id |-> a.id, team2Id |-> b.id,
         teamGender |-> a.gender, diff |-> Abs(a.avgRating - b.avgRating),
         pointsForWin |-> getCourtPoints(courtIdx, courtsInHierarchy),
         status |-> "pending", winner |-> "none"]

\* generateKOTMatchesForTeamGroup: the possible [matches, stats] results
generateKOTMatchesForTeamGroup(groupTeams, kotTeamStats, numCourts, startingCourtIndex, roundIndex, previousRounds, courtsInHierarchy) ==
    LET actualCourts == Min2(numCourts, Len(groupTeams) \div 2)
        maxTeamsThisRound == actualCourts * 2
        group == IdsOf(groupTeams)
        teamsToAssign == IF Len(groupTeams) > maxTeamsThisRound
                         THEN selectTeamsForKOTRound(groupTeams, kotTeamStats, maxTeamsThisRound,
                                                     roundIndex)
                         ELSE group
        pools == IF roundIndex = 0 THEN Shuffles(Range(teamsToAssign))
                 ELSE {assignTeamsToCourts(teamsToAssign, kotTeamStats, previousRounds,
                                           actualCourts, startingCourtIndex)}
    IN  {[matches |-> [c \in 1..actualCourts |->
                          KOTTeamMatch(groupTeams, SubSeq(pool, (c - 1) * 2 + 1, c * 2), c - 1,
                                       startingCourtIndex + c - 1, courtsInHierarchy)],
          stats |-> KOTGroupStats(kotTeamStats, group, teamsToAssign, pool, actualCourts, 2,
                                  startingCourtIndex, roundIndex)] :
         pool \in pools}

RECURSIVE KOTGenderLoop(_, _, _, _, _, _, _)
\* groups.forEach of generateKingOfCourtTeamedRound over the three team genders
KOTGenderLoop(presentTeams, genders, numCourts, roundIndex, previousRounds, matches, kotTeamStats) ==
    IF genders = <<>> THEN {[matches |-> matches, stats |-> kotTeamStats]}
    ELSE LET gTeams == GenderTeams(presentTeams, Head(genders))
             actualCourts == Min2(Len(gTeams) \div 2, numCourts - Len(matches))
         IN  IF Len(gTeams) >= 2 /\ actualCourts > 0
             THEN UNION {KOTGenderLoop(presentTeams, Tail(genders), numCourts, roundIndex,
                                       previousRounds, matches \o r.matches, r.stats) :
                         r \in generateKOTMatchesForTeamGroup(gTeams, kotTeamStats, actualCourts,
                                   Len(matches) + 1, roundIndex, previousRounds, actualCourts)}
             ELSE KOTGenderLoop(presentTeams, Tail(genders), numCourts, roundIndex,
                                previousRounds, matches, kotTeamStats)

\* generateKingOfCourtTeamedRound: the possible [matches, stats] results
generateKingOfCourtTeamedRound(presentTeams, numCourts, kotTeamStats, currentRoundIndex, previousRounds, separateBySkill) ==
    LET updatedStats == initializeKingOfCourtStats(kotTeamStats, presentTeams)
    IN  IF separateBySkill /\ Len(presentTeams) >= 4
        THEN KOTGenderLoop(presentTeams, <<"male_male", "female_female", "mixed">>, numCourts,
                           currentRoundIndex, previousRounds, <<>>, updatedStats)
        ELSE generateKOTMatchesForTeamGroup(presentTeams, updatedStats, numCourts, 1,
                                            currentRoundIndex, previousRounds, numCourts)

(* ----------------------------- scenarios ------------------------------ *)
RatingProfiles == {<<30, 32, 35, 35, 41>>}
TeamRatingProfiles == {<<30, 33, 35, 38, 40>>}

MkPlayers(n, g, prof) == [i \in 1..n |-> [id |-> i, gender |-> g[i], rating |-> prof[i]]]

SinglesGenders ==
    {<<"male", "male", "male", "male", "male">>,
     <<"male", "male", "male", "male", "female">>,
     <<"male", "female", "male", "female", "male">>,
     <<"female", "female", "male", "male", "male">>,
     <<"male", "female", "female", "female", "female">>}

InitSingles ==
    /\ format = "singles"
    /\ \E prof \in RatingProfiles, g \in SinglesGenders : players = MkPlayers(5, g, prof)
    /\ teams = <<>>
    /\ courts \in {1, 2}
    /\ bySkill = FALSE /\ preferMixed = FALSE

MkTeams(n, g, prof) == [i \in 1..n |-> [id |-> i, gender |-> g[i], avgRating |-> prof[i]]]

TeamGenderMaps ==
    {<<"male_male", "male_male", "male_male", "male_male", "male_male">>,
     <<"male_male", "male_male", "male_male", "female_female", "mixed">>,
     <<"male_male", "female_female", "male_male", "female_female", "male_male">>,
     <<"mixed", "female_female", "mixed", "female_female", "mixed">>}

InitTeamed ==
    /\ format = "teamed_doubles"
    /\ players = <<>>
    /\ \E n \in {4, 5}, prof \in TeamRatingProfiles, g \in TeamGenderMaps :
         teams = MkTeams(n, g, prof)
    /\ courts \in {1, 2}
    /\ bySkill = FALSE /\ preferMixed = FALSE

DoublesProfile == <<30, 34, 35, 39, 42, 36>>
EightProfile == <<30, 31, 32, 33, 45, 46, 47, 48>>
TwelveProfile == <<30, 31, 32, 33, 40, 40, 41, 41, 42, 42, 43, 44>>
BigRounds == 1
LadderRounds == 2
SweepRounds == 3
SelectRounds == 2

InitDoubles ==
    /\ format = "doubles"
    /\ teams = <<>>
    /\ \/ /\ \E k \in 0..2 :
                players = MkPlayers(5, [i \in 1..5 |-> IF i <= k THEN "female" ELSE "male"],
                                    DoublesProfile)
          /\ courts = 1
          /\ bySkill = FALSE
          /\ preferMixed \in BOOLEAN
       \/ /\ players = MkPlayers(6, [i \in 1..6 |-> IF i <= 2 THEN "female" ELSE "male"],
                                 DoublesProfile)
          /\ courts = 1
          /\ bySkill = FALSE
          /\ preferMixed = TRUE
       \/ /\ players = MkPlayers(8, [i \in 1..8 |-> IF i % 2 = 0 THEN "female" ELSE "male"],
                                 EightProfile)
          /\ courts = 2
          /\ bySkill \in BOOLEAN
          /\ preferMixed = FALSE
       \/ /\ players = MkPlayers(12, [i \in 1..12 |-> IF i \in {5, 6} THEN "female" ELSE "male"],
                                 TwelveProfile)
          /\ courts = 3
          /\ bySkill = TRUE
          /\ preferMixed = TRUE
       \/ /\ players = MkPlayers(8, [i \in 1..8 |-> IF i \in {1, 5} THEN "female" ELSE "male"],
                                 EightProfile)
          /\ courts = 1
          /\ bySkill = FALSE
          /\ preferMixed = TRUE

KOTProfile == <<30, 31, 32, 33, 34, 40, 41, 42>>

InitKOT ==
    /\ format = "kot"
    /\ teams = <<>>
    /\ preferMixed = FALSE
    /\ \/ /\ players = MkPlayers(5, [i \in 1..5 |-> "male"], KOTProfile)
          /\ courts \in {1, 2}
          /\ bySkill = FALSE
       \/ /\ players = MkPlayers(8, [i \in 1..8 |-> "male"], KOTProfile)
          /\ courts \in {1, 2}
          /\ bySkill \in BOOLEAN

InitKOTTeamed ==
    /\ format = "kot_teamed"
    /\ players = <<>>
    /\ preferMixed = FALSE
    /\ \E n \in {4, 5}, prof \in TeamRatingProfiles, g \in TeamGenderMaps :
         teams = MkTeams(n, g, prof)
    /\ courts \in {1, 2}
    /\ bySkill \in BOOLEAN

\* the rounds a scenario is followed for
\* an unseparated roster of eight is followed for its first round only, except on
\* the two-court ladder, where the second round moves the players between the courts,
\* and on one doubles court, where half of the roster sits out every round
\* the rosters of nine (fairness sweep) and of seven (gender-aware selector) have
\* bounds of their own
RoundCap ==
    IF Len(players) = 9 THEN SweepRounds
    ELSE IF Len(players) = 7 THEN SelectRounds
    ELSE IF Len(players) >= 8 /\ format = "kot" /\ courts = 2 /\ ~bySkill THEN LadderRounds
    ELSE IF Len(players) >= 8 /\ format = "doubles" /\ courts = 1 THEN MaxRounds
    ELSE IF Len(players) >= 8 THEN (IF bySkill THEN BigRounds ELSE 1)
    ELSE IF format \in {"kot", "kot_teamed"} THEN LadderRounds
    ELSE MaxRounds

Init ==
    /\ (InitSingles \/ InitTeamed \/ InitDoubles \/ InitKOT \/ InitKOTTeamed)
    /\ stats = <<>>
    /\ roundIdx = 0
    /\ rounds = <<>>
    /\ courtStates = <<>> /\ matchFormat = "single_match" /\ alertMsg = "" /\ bestSplit = <<>>
    /\ minPerLevel = 4 /\ separated = <<>>
    /\ tournamentType = (IF format \in {"kot", "kot_teamed"} THEN "king_of_court" ELSE "round_robin")
    /\ ladderStats = <<>> /\ ladderTeamStats = <<>> /\ kotAutoTeams = <<>> /\ fixedTeamStats = <<>>
    /\ thrown = ""
    /\ CloudIdle

(* ------------------------------ actions ------------------------------- *)
SinglesRound ==
    /\ format = "singles"
    /\ roundIdx < MaxRounds
    /\ \E r \in generateSinglesRound(players, courts, stats, roundIdx) :
         /\ stats' = r.stats
         /\ rounds' = Append(rounds, r.matches)
    /\ roundIdx' = roundIdx + 1
    /\ UNCHANGED <<courtStates, matchFormat, alertMsg, bestSplit, minPerLevel, separated, tournamentType, ladderStats, ladderTeamStats, kotAutoTeams, fixedTeamStats, thrown, format, players, teams, courts, bySkill, preferMixed>>
    /\ UNCHANGED cloud

TeamedDoublesRound ==
    /\ format = "teamed_doubles"
    /\ roundIdx < MaxRounds
    /\ \E r \in generateTeamedDoublesRound(teams, courts, stats, roundIdx) :
         /\ stats' = r.stats
         /\ rounds' = Append(rounds, r.matches)
    /\ roundIdx' = roundIdx + 1
    /\ UNCHANGED <<courtStates, matchFormat, alertMsg, bestSplit, minPerLevel, separated, tournamentType, ladderStats, ladderTeamStats, kotAutoTeams, fixedTeamStats, thrown, format, players, teams, courts, bySkill, preferMixed>>
    /\ UNCHANGED cloud

DoublesRound ==
    /\ format = "doubles"
    /\ roundIdx < RoundCap
    /\ \E r \in generateRoundRobinRound(players, courts, stats, roundIdx, bySkill, preferMixed,
                                        FemaleRestInterval, rounds) :
         /\ stats' = r.stats
         /\ rounds' = Append(rounds, r.matches)
    /\ roundIdx' = roundIdx + 1
    /\ UNCHANGED <<courtStates, matchFormat, alertMsg, bestSplit, minPerLevel, separated, tournamentType, ladderStats, ladderTeamStats, kotAutoTeams, fixedTeamStats, thrown, format, players, teams, courts, bySkill, preferMixed>>
    /\ UNCHANGED cloud

\* generateNextRound asks for every ladder match to be over before the next round
AllCourtsReady ==
    IF rounds = <<>> THEN TRUE
    ELSE \A i \in DOMAIN rounds[Len(rounds)] : rounds[Len(rounds)][i].status = "completed"

KingOfCourtRound ==
    /\ format = "kot"
    /\ roundIdx < RoundCap
    /\ AllCourtsReady
    /\ \E r \in generateKingOfCourtRound(players, courts, stats, roundIdx, rounds, bySkill) :
         /\ stats' = r.stats
         /\ rounds' = Append(rounds, r.matches)
    /\ roundIdx' = roundIdx + 1
    /\ UNCHANGED <<courtStates, matchFormat, alertMsg, bestSplit, minPerLevel, separated, tournamentType, ladderStats, ladderTeamStats, kotAutoTeams, fixedTeamStats, thrown, format, players, teams, courts, bySkill, preferMixed>>
    /\ UNCHANGED cloud

KingOfCourtTeamedRound ==
    /\ format = "kot_teamed"
    /\ roundIdx < RoundCap
    /\ AllCourtsReady
    /\ \E r \in generateKingOfCourtTeamedRound(teams, courts, stats, roundIdx, rounds, bySkill) :
         /\ stats' = r.stats
         /\ rounds' = Append(rounds, r.matches)
    /\ roundIdx' = roundIdx + 1
    /\ UNCHANGED <<courtStates, matchFormat, alertMsg, bestSplit, minPerLevel, separated, tournamentType, ladderStats, ladderTeamStats, kotAutoTeams, fixedTeamStats, thrown, format, players, teams, courts, bySkill, preferMixed>>
    /\ UNCHANGED cloud

\* setWinner on a ladder match: the match is completed and the winners are credited
SetWinner ==
    /\ format \in {"kot", "kot_teamed"}
    /\ \E ri \in DOMAIN rounds : \E mi \in DOMAIN rounds[ri] : \E side \in {"team1", "team2"} :
         /\ rounds[ri][mi].status = "pending"
         /\ LET m == [rounds[ri][mi] EXCEPT !.winner = side, !.status = "completed"]
            IN  /\ rounds' = [rounds EXCEPT ![ri][mi] = m]
                /\ stats' = IF m.pointsForWin # 0 THEN updateKOTStats(stats, m) ELSE stats
    /\ UNCHANGED <<courtStates, matchFormat, alertMsg, bestSplit, minPerLevel, separated, tournamentType, ladderStats, ladderTeamStats, kotAutoTeams, fixedTeamStats, thrown, format, players, teams, courts, bySkill, preferMixed, roundIdx>>
    /\ UNCHANGED cloud

Next ==
    \/ SinglesRound
    \/ TeamedDoublesRound
    \/ DoublesRound
    \/ KingOfCourtRound
    \/ KingOfCourtTeamedRound
    \/ SetWinner

Spec == Init /\ [][Next]_vars

(* --------- PickleballTournamentManager.js: a round-robin session ------- *)
\* The session is a singles round robin (King of Court is switched off by
\* ENABLE_KOT_V2); rounds holds the matches with their score cards, stats is
\* the playerStats accumulator, roundIdx is currentRound.

\* the empty score field ''
Blank == -1

Max2(a, b) == IF a > b THEN a ELSE b

\* what a score input can send to updateScore
RawInputs == {"", "x", "-1", "0", "1", "2"}

\* Number(raw) for the inputs above; IsNaN tells the ones that are no number
IsNaN(raw) == raw \notin {"", "-1", "0", "1", "2"}
ToNumber(raw) ==
    CASE raw = "-1" -> -1
      [] raw = "1" -> 1
      [] raw = "2" -> 2
      [] OTHER -> 0

\* the score fields the schedule shows for a match
ScoreFields(m) ==
    IF m.matchFormat = "best_of_3"
    THEN {"game1Score1", "game1Score2", "game2Score1", "game2Score2",
          "game3Score1", "game3Score2"}
    ELSE {"score1", "score2"}

\* uid(): an id no earlier match has
uid(rs, i) == SumOver([r \in DOMAIN rs |-> Len(rs[r])], DOMAIN rs) + i

\* the match object generateSinglesRound pushes: the pairing with its id,
\* its match format and an empty score card
ScoreCard(m, id, mf) ==
    [id |-> id, court |-> m.court, player1 |-> m.player1, player2 |-> m.player2,
     diff |-> m.diff,
     score1 |-> Blank, score2 |-> Blank,
     game1Score1 |-> Blank, game1Score2 |-> Blank,
     game2Score1 |-> Blank, game2Score2 |-> Blank,
     game3Score1 |-> Blank, game3Score2 |-> Blank,
     status |-> m.status, winner |-> m.winner,
     gameFormat |-> m.gameFormat, matchFormat |-> mf]

\* derivedPlayerStats: matches played and rounds sat out, counted from rounds
derivedPlayerStats(rs) ==
    LET everPlayedIds == UNION {PlayingIds(rs[r]) : r \in DOMAIN rs}
    IN  [id \in everPlayedIds |->
            [matchesPlayed |->
                SumOver([r \in DOMAIN rs |->
                            Cardinality({i \in DOMAIN rs[r] : id \in MatchIds(rs[r][i])})],
                        DOMAIN rs),
             roundsSatOut |->
                Cardinality({r \in DOMAIN rs : rs[r] # <<>> /\ id \notin PlayingIds(rs[r])})]]

NewSessionEntry == [roundsPlayed |-> 0, roundsSatOut |-> 0, lastPlayedRound |-> -1]

\* singlesStats of generateNextRound: playerStats with the derived counters
singlesStats(presentPlayers, playerStats, rs) ==
    LET derivedAll == derivedPlayerStats(rs) IN
    [id \in Ids(presentPlayers) |->
        LET base == IF id \in DOMAIN playerStats THEN playerStats[id] ELSE NewSessionEntry
            derived == IF id \in DOMAIN derivedAll THEN derivedAll[id]
                       ELSE [matchesPlayed |-> 0, roundsSatOut |-> 0]
        IN  [roundsPlayed |-> derived.matchesPlayed,
             roundsSatOut |-> derived.roundsSatOut,
             lastPlayedRound |-> base.lastPlayedRound,
             opponents |-> <<>>]]

\* updateScore: '' and what is no number are stored as '', a number as max(0, n)
updateScore(prev, rIdx, mIdx, which, raw) ==
    [prev EXCEPT ![rIdx][mIdx][which] =
        IF raw = "" THEN Blank
        ELSE IF IsNaN(raw) THEN Blank ELSE Max2(0, ToNumber(raw))]

\* setWinner in a round-robin session (the ladder branch is not taken)
setWinner(m, side) ==
    [m EXCEPT !.winner = IF side = 1 THEN "team1" ELSE "team2", !.status = "completed"]

\* quickWin accepting whatever side is declared once the scores are entered and untied
quickWinAnySide(m, side) ==
    IF m.matchFormat = "best_of_3"
    THEN IF Blank \in {m.game1Score1, m.game1Score2, m.game2Score1, m.game2Score2}
         THEN "Please enter scores for Game 1 and Game 2 before selecting a winner."
         ELSE IF m.game1Score1 = m.game1Score2 THEN "Game 1 cannot be tied."
         ELSE IF m.game2Score1 = m.game2Score2 THEN "Game 2 cannot be tied."
         ELSE ""
    ELSE IF m.score1 = Blank \/ m.score2 = Blank
         THEN "Please enter scores before selecting a winner."
         ELSE IF m.score1 = m.score2 THEN "Scores cannot be tied."
         ELSE ""

\* the alert quickWin raises for match m and the declared side, "" when it accepts
quickWinAlert(m, side) ==
    IF m.matchFormat = "best_of_3"
    THEN IF Blank \in {m.game1Score1, m.game1Score2, m.game2Score1, m.game2Score2}
         THEN "Please enter scores for Game 1 and Game 2 before selecting a winner."
         ELSE IF m.game1Score1 = m.game1Score2 THEN "Game 1 cannot be tied."
         ELSE IF m.game2Score1 = m.game2Score2 THEN "Game 2 cannot be tied."
         ELSE LET team1Games == (IF m.game1Score1 > m.game1Score2 THEN 1 ELSE 0)
                                + (IF m.game2Score1 > m.game2Score2 THEN 1 ELSE 0)
                  team2Games == 2 - team1Games
                  g3s1 == IF m.game3Score1 = Blank THEN 0 ELSE m.game3Score1
                  g3s2 == IF m.game3Score2 = Blank THEN 0 ELSE m.game3Score2
              IN  IF team1Games = 2 \/ team2Games = 2
                  THEN IF (IF team1Games = 2 THEN 1 ELSE 2) # side
                       THEN "Score validation failed" ELSE ""
                  ELSE IF g3s1 = 0 \/ g3s2 = 0
                       THEN "Match is tied 1-1. Please enter Game 3 scores before selecting a winner."
                  ELSE IF g3s1 = g3s2 THEN "Game 3 cannot be tied."
                  ELSE IF (IF g3s1 > g3s2 THEN 1 ELSE 2) # side
                       THEN "Score validation failed" ELSE ""
    ELSE IF m.score1 = Blank \/ m.score2 = Blank
         THEN "Please enter scores before selecting a winner."
         ELSE IF m.score1 = m.score2 THEN "Scores cannot be tied."
         ELSE IF (IF m.score1 > m.score2 THEN 1 ELSE 2) # side
              THEN "Score validation failed" ELSE ""

\* quickWin: the rounds after the call, prev itself when the call is rejected
quickWin(prev, rIdx, mIdx, side) ==
    IF quickWinAlert(prev[rIdx][mIdx], side) = ""
    THEN [prev EXCEPT ![rIdx][mIdx] = setWinner(@, side)]
    ELSE prev

\* the search of undoLastMatch: the last completed match of the last round that
\* has one, <<0, 0>> when no match is completed
LastCompleted(rs) ==
    LET done == {r \in DOMAIN rs : \E i \in DOMAIN rs[r] : rs[r][i].status = "completed"}
    IN  IF done = {} THEN <<0, 0>>
        ELSE LET r == CHOOSE x \in done : \A y \in done : x >= y
                 is == {i \in DOMAIN rs[r] : rs[r][i].status = "completed"}
             IN  <<r, CHOOSE x \in is : \A y \in is : x >= y>>

\* a revert that clears the scores and the status but keeps the winner
RevertedKeepingWinner(targetMatch) ==
    [targetMatch EXCEPT !.status = "pending",
                        !.score1 = Blank, !.score2 = Blank,
                        !.game1Score1 = Blank, !.game1Score2 = Blank,
                        !.game2Score1 = Blank, !.game2Score2 = Blank,
                        !.game3Score1 = Blank, !.game3Score2 = Blank]

\* revertedMatch of undoLastMatch
RevertedMatch(targetMatch) ==
    [targetMatch EXCEPT !.status = "pending", !.winner = "none",
                        !.score1 = Blank, !.score2 = Blank,
                        !.game1Score1 = Blank, !.game1Score2 = Blank,
                        !.game2Score1 = Blank, !.game2Score2 = Blank,
                        !.game3Score1 = Blank, !.game3Score2 = Blank]

SessionRounds == 2
TournamentRounds == 2

\* the rosters of a session: three men and a woman (one match a round), or
\* four men (two matches a round)
SessionGenders == {<<"male", "male", "male", "female">>, <<"male", "male", "male", "male">>}

\* a best-of-3 session and a session of two matches a round are followed for
\* their first round only
SessionCap ==
    IF tournamentType = "king_of_court" \/ format # "singles" THEN TournamentRounds
    ELSE IF matchFormat = "best_of_3" \/ Len(players) < 4 \/ players[4].gender = "male" THEN 1
    ELSE SessionRounds

SessionInit ==
    /\ format = "singles"
    /\ \E g \in SessionGenders : players = MkPlayers(4, g, <<30, 32, 35, 41>>)
    /\ teams = <<>>
    /\ courts = 2
    /\ bySkill = FALSE /\ preferMixed = FALSE
    /\ stats = <<>>
    /\ roundIdx = 0
    /\ rounds = <<>>
    /\ courtStates = [c \in 1..courts |->
                        [courtNumber |-> c, status |-> "ready", currentMatch |-> <<>>]]
    /\ matchFormat \in {"single_match", "best_of_3"}
    /\ (players[4].gender = "male" => matchFormat = "single_match")
    /\ alertMsg = ""
    /\ bestSplit = <<>>
    /\ minPerLevel = 4 /\ separated = <<>>
    /\ tournamentType = "round_robin"
    /\ ladderStats = <<>> /\ ladderTeamStats = <<>> /\ kotAutoTeams = <<>> /\ fixedTeamStats = <<>>
    /\ thrown = ""
    /\ CloudIdle

setup == <<format, players, teams, courts, bySkill, preferMixed, matchFormat, bestSplit,
          minPerLevel, separated, tournamentType, thrown>>

\* the state of the ladder
ladder == <<ladderStats, ladderTeamStats, kotAutoTeams>>

\* the courts after a round is put on them: each match takes its court, which plays it
AssignRoundToCourts(prev, newRound) ==
    [c \in DOMAIN prev |->
        LET here == {i \in DOMAIN newRound : newRound[i].court = prev[c].courtNumber}
        IN  IF here = {} THEN prev[c]
            ELSE [prev[c] EXCEPT
                    !.status = "playing",
                    !.currentMatch = <<newRound[CHOOSE i \in here : \A j \in here : i >= j]>>]]

\* setPlayerStats of generateNextRound: an entry for every present player, and one
\* more round sat out for those who are in no match of the round
SatOutMarked(prev, presentPlayers, newRound) ==
    [id \in DOMAIN prev \cup Ids(presentPlayers) |->
        LET e == IF id \in DOMAIN prev THEN prev[id] ELSE NewSessionEntry
        IN  IF id \in Ids(presentPlayers) /\ id \notin PlayingIds(newRound)
            THEN [e EXCEPT !.roundsSatOut = @ + 1] ELSE e]

\* a match of the doubles and teamed schedulers with the id uid() gave it
WithId(matches, rs) == [i \in DOMAIN matches |-> ("id" :> uid(rs, i)) @@ matches[i]]

\* derivedTeamStats: matches played and rounds sat out of the teams, counted from rounds
derivedTeamStats(rs) == derivedPlayerStats(rs)

\* teamSchedulingStats of generateNextRound; opponents is a plain object, which
\* generateTeamedDoublesRound turns into a Map of the same counts
teamSchedulingStats(allTeams, prevTeamStats, rs) ==
    LET derivedAll == derivedTeamStats(rs) IN
    [id \in Ids(allTeams) |->
        LET base == IF id \in DOMAIN prevTeamStats THEN prevTeamStats[id] ELSE NewTeamEntry
            derived == IF id \in DOMAIN derivedAll THEN derivedAll[id]
                       ELSE [matchesPlayed |-> 0, roundsSatOut |-> 0]
        IN  [roundsPlayed |-> derived.matchesPlayed,
             roundsSatOut |-> derived.roundsSatOut,
             lastPlayedRound |-> base.lastPlayedRound,
             opponents |-> base.opponents]]

\* the teammates of a playerStats entry of the session, {} when it has none
PlainTeammates(e) == IF "teammates" \in DOMAIN e THEN e.teammates ELSE <<>>

\* schedulingStats of generateNextRound: teammates and opponents are plain objects,
\* which the field plainObjects records
schedulingStats(presentPlayers, playerStats, rs) ==
    LET derivedAll == derivedPlayerStats(rs) IN
    [id \in Ids(presentPlayers) |->
        LET base == IF id \in DOMAIN playerStats THEN playerStats[id] ELSE NewSessionEntry
            derived == IF id \in DOMAIN derivedAll THEN derivedAll[id]
                       ELSE [matchesPlayed |-> 0, roundsSatOut |-> 0]
        IN  [roundsPlayed |-> derived.matchesPlayed,
             roundsSatOut |-> derived.roundsSatOut,
             lastPlayedRound |-> base.lastPlayedRound,
             consecutiveRounds |-> 0,
             opponents |-> <<>>,
             teammates |-> PlainTeammates(base),
             plainObjects |-> TRUE]]

\* stats.teammates.get(id) of findBestTeamSplit and selectBestGroupOfFour on the
\* entries of the present players: a Map answers, a plain object has no get and the
\* call throws a TypeError
GetOnPlainObjectThrows(playerStats, presentPlayers) ==
    \E id \in Ids(presentPlayers) :
        id \in DOMAIN playerStats /\ "plainObjects" \in DOMAIN playerStats[id]

\* generateRoundRobinRound called with the stats of generateNextRound: the error
\* thrown, or the possible [matches, stats] results.  The first match of a round is
\* what reads a teammates history (createBalancedMatches), and a round has a first
\* match when there is a court and four players
RoundRobinCall(presentPlayers, numCourts, playerStats, currentRoundIndex, separateBySkill, preferMixedDoubles, femaleRestInterval, previousRounds) ==
    IF /\ GetOnPlainObjectThrows(playerStats, presentPlayers)
       /\ numCourts >= 1 /\ Len(presentPlayers) >= 4
    THEN {[error |-> "stats1.teammates.get is not a function", matches |-> <<>>,
           stats |-> playerStats]}
    ELSE {[error |-> "", matches |-> r.matches, stats |-> r.stats] :
          r \in generateRoundRobinRound(presentPlayers, numCourts, playerStats,
                    currentRoundIndex, separateBySkill, preferMixedDoubles,
                    femaleRestInterval, previousRounds)}

\* teams of neighbours in the order of falling rating
generateAdjacentKOTTeams(ps) ==
    IF Len(ps) < 2 THEN <<>>
    ELSE LET sortedPlayers == StableSortDesc(ps, [id \in Ids(ps) |-> ById(ps, id).rating])
         IN  [t \in 1..(Len(ps) \div 2) |->
                LET player1 == sortedPlayers[2 * t - 1]
                    player2 == sortedPlayers[2 * t]
                IN  [id |-> t, player1 |-> player1.id, player2 |-> player2.id,
                     avgRating |-> (player1.rating + player2.rating) \div 2,
                     gender |-> IF player1.gender = "female" /\ player2.gender = "female"
                                THEN "female_female"
                                ELSE IF player1.gender = "male" /\ player2.gender = "male"
                                THEN "male_male" ELSE "mixed"]]

\* generateBalancedKOTTeams: the players by falling rating are dealt to the teams
\* back and forth (0, 1, .., n-1, n-1, .., 1, 0, 0, 1, ..), two to a team
generateBalancedKOTTeams(ps) ==
    IF Len(ps) < 2 THEN <<>>
    ELSE LET sortedPlayers == StableSortDesc(ps, [id \in Ids(ps) |-> ById(ps, id).rating])
             numTeams == Len(ps) \div 2
             slotOf(i) == LET c == (i - 1) % (2 * numTeams)
                          IN  IF c < numTeams THEN c + 1 ELSE 2 * numTeams - c
             dealt(t) == SelectSeq([i \in DOMAIN sortedPlayers |->
                                       [p |-> sortedPlayers[i], slot |-> slotOf(i)]],
                                   LAMBDA x : x.slot = t)
         IN  [t \in 1..numTeams |->
                LET player1 == dealt(t)[1].p
                    player2 == dealt(t)[2].p
                IN  [id |-> t, player1 |-> player1.id, player2 |-> player2.id,
                     avgRating |-> (player1.rating + player2.rating) \div 2,
                     gender |-> IF player1.gender = "female" /\ player2.gender = "female"
                                THEN "female_female"
                                ELSE IF player1.gender = "male" /\ player2.gender = "male"
                                THEN "male_male" ELSE "mixed"]]

\* the match of generateKOTMatchesForTeamGroup with the players of its two teams
WithPlayers(matches, allTeams) ==
    [i \in DOMAIN matches |->
        LET a == ById(allTeams, matches[i].team1Id)
            b == ById(allTeams, matches[i].team2Id)
        IN  [team1 |-> <<a.player1, a.player2>>, team2 |-> <<b.player1, b.player2>>]
            @@ matches[i]]

\* the rounds as assignPlayersToCourts reads them: by the players of team1 and team2
ByPlayers(rs) ==
    [r \in DOMAIN rs |-> [i \in DOMAIN rs[r] |-> [rs[r][i] EXCEPT !.gameFormat = "doubles"]]]

\* a check of the courts that lets every call through
EveryCourtReadyOrNot(cs) == TRUE

\* allCourtsReady of generateNextRound
EveryCourtReady(cs) == \A c \in DOMAIN cs : cs[c].status = "ready"

\* generateNextRound, round robin singles
NextSinglesRound ==
    IF Len(players) < 2
    THEN /\ alertMsg' = "Need at least 2 present players for singles"
         /\ UNCHANGED <<rounds, stats, courtStates, roundIdx>>
    ELSE \E r \in generateSinglesRound(players, courts,
                                       singlesStats(players, stats, rounds), roundIdx) :
           LET newRound == [i \in DOMAIN r.matches |->
                               ScoreCard(r.matches[i], uid(rounds, i), matchFormat)]
           IN  IF newRound = <<>>
               THEN /\ alertMsg' = "Could not generate any singles matches."
                    /\ UNCHANGED <<rounds, stats, courtStates, roundIdx>>
               ELSE /\ courtStates' = AssignRoundToCourts(courtStates, newRound)
                    /\ stats' = SatOutMarked(stats, players, newRound)
                    /\ rounds' = Append(rounds, newRound)
                    /\ roundIdx' = roundIdx + 1
                    /\ alertMsg' = ""

\* generateNextRound, round robin of fixed teams; the scheduler counts on a copy of
\* the stats, and teamStats is left as it is
NextTeamedRound ==
    IF Len(teams) < 2
    THEN /\ alertMsg' = "Need at least 2 teams for teamed doubles"
         /\ UNCHANGED <<rounds, stats, courtStates, roundIdx>>
    ELSE \E r \in generateTeamedDoublesRound(teams, courts,
                      teamSchedulingStats(teams, fixedTeamStats, rounds), roundIdx) :
           LET newRound == WithId(r.matches, rounds)
           IN  IF newRound = <<>>
               THEN /\ alertMsg' = "Could not generate any matches."
                    /\ UNCHANGED <<rounds, stats, courtStates, roundIdx>>
               ELSE /\ courtStates' = AssignRoundToCourts(courtStates, newRound)
                    /\ rounds' = Append(rounds, newRound)
                    /\ roundIdx' = roundIdx + 1
                    /\ alertMsg' = ""
                    /\ UNCHANGED stats

\* generateNextRound, round robin doubles; what the scheduler throws is caught and shown
NextDoublesRound ==
    IF Len(players) < 4
    THEN /\ alertMsg' = "Need at least 4 present players"
         /\ UNCHANGED <<rounds, stats, courtStates, roundIdx>>
    ELSE \E r \in RoundRobinCall(players, courts, schedulingStats(players, stats, rounds),
                      roundIdx, bySkill, preferMixed, FemaleRestInterval, rounds) :
           LET newRound == WithId(r.matches, rounds)
           IN  IF r.error # ""
               THEN /\ alertMsg' = "Error generating round: " \o r.error
                    /\ UNCHANGED <<rounds, stats, courtStates, roundIdx>>
               ELSE IF newRound = <<>>
               THEN /\ alertMsg' = "Could not generate any matches."
                    /\ UNCHANGED <<rounds, stats, courtStates, roundIdx>>
               ELSE /\ courtStates' = AssignRoundToCourts(courtStates, newRound)
                    /\ stats' = SatOutMarked(stats, players, newRound)
                    /\ rounds' = Append(rounds, newRound)
                    /\ roundIdx' = roundIdx + 1
                    /\ alertMsg' = ""

\* the round of the teams, which is the one that joins the rounds
NextLadderTeams(presentTeams) ==
    \E t \in generateKingOfCourtTeamedRound(presentTeams, courts, ladderTeamStats, roundIdx,
                                            rounds, bySkill) :
        /\ ladderTeamStats' = t.stats
        /\ rounds' = Append(rounds, WithPlayers(t.matches, presentTeams))
        /\ roundIdx' = roundIdx + 1
        /\ alertMsg' = ""

\* generateNextRound, King of Court: the round of the players is generated and put on
\* the courts, then the round of the teams is generated
NextLadderRound ==
    IF Len(players) < 4
    THEN /\ alertMsg' = "Need at least 4 present players"
         /\ UNCHANGED <<rounds, courtStates, roundIdx, ladder>>
    ELSE IF ~EveryCourtReady(courtStates)
    THEN /\ alertMsg' = "Complete all current matches before generating the next King of Court round."
         /\ UNCHANGED <<rounds, courtStates, roundIdx, ladder>>
    ELSE \E r \in generateKingOfCourtRound(players, courts, ladderStats, roundIdx,
                                           ByPlayers(rounds), bySkill) :
           /\ ladderStats' = r.stats
           /\ courtStates' = AssignRoundToCourts(courtStates, r.matches)
           /\ IF format = "teamed_doubles"
              THEN IF Len(teams) < 2
                   THEN /\ alertMsg' = "Need at least 2 teams for King of Court"
                        /\ UNCHANGED <<rounds, roundIdx, ladderTeamStats, kotAutoTeams>>
                   ELSE NextLadderTeams(teams) /\ UNCHANGED kotAutoTeams
              ELSE IF roundIdx = 0 /\ Len(kotAutoTeams) = 0
                   THEN LET autoTeams == generateBalancedKOTTeams(players)
                        IN  IF Len(autoTeams) < 2
                            THEN /\ alertMsg' = "Need at least 4 players (2 teams) for King of Court"
                                 /\ UNCHANGED <<rounds, roundIdx, ladderTeamStats, kotAutoTeams>>
                            ELSE kotAutoTeams' = autoTeams /\ NextLadderTeams(autoTeams)
                   ELSE IF Len(kotAutoTeams) < 2
                        THEN /\ alertMsg' = "King of Court teams not found. Please restart the tournament."
                             /\ UNCHANGED <<rounds, roundIdx, ladderTeamStats, kotAutoTeams>>
                        ELSE NextLadderTeams(kotAutoTeams) /\ UNCHANGED kotAutoTeams

\* the rounds of the players the ladder has generated so far
LadderGenerated ==
    IF DOMAIN ladderStats = {} THEN 0
    ELSE LET s == ladderStats[CHOOSE id \in DOMAIN ladderStats : TRUE]
         IN  s.roundsPlayed + s.roundsSatOut

\* generateNextRound
GenerateNextRound ==
    /\ roundIdx < SessionCap /\ LadderGenerated < TournamentRounds
    /\ IF matchFormat = "undefined"
       THEN /\ alertMsg' = "Error generating round: Match format is missing. Please return to Setup and select a Match Format."
            /\ UNCHANGED <<rounds, stats, courtStates, roundIdx, ladder>>
       ELSE IF tournamentType = "round_robin"
       THEN /\ IF format = "singles" THEN NextSinglesRound
               ELSE IF format = "teamed_doubles" THEN NextTeamedRound
               ELSE NextDoublesRound
            /\ UNCHANGED ladder
       ELSE IF tournamentType = "king_of_court"
       THEN NextLadderRound /\ UNCHANGED stats
       ELSE /\ alertMsg' = "Invalid tournament type"
            /\ UNCHANGED <<rounds, stats, courtStates, roundIdx, ladder>>
    /\ UNCHANGED <<setup, fixedTeamStats>>
    /\ UNCHANGED cloud

\* a score input of the schedule changes: updateScore
UpdateScore ==
    /\ \E rIdx \in DOMAIN rounds : \E mIdx \in DOMAIN rounds[rIdx] :
       \E which \in ScoreFields(rounds[rIdx][mIdx]) : \E raw \in RawInputs :
         rounds' = updateScore(rounds, rIdx, mIdx, which, raw)
    /\ alertMsg' = ""
    /\ UNCHANGED <<stats, courtStates, roundIdx>>
    /\ UNCHANGED <<setup, ladder, fixedTeamStats>>
    /\ UNCHANGED cloud

\* a winner button of a match that is not completed is pressed: quickWin
QuickWin ==
    /\ \E rIdx \in DOMAIN rounds : \E mIdx \in DOMAIN rounds[rIdx] : \E side \in {1, 2} :
         /\ rounds[rIdx][mIdx].status # "completed"
         /\ rounds' = quickWin(rounds, rIdx, mIdx, side)
         /\ alertMsg' = quickWinAlert(rounds[rIdx][mIdx], side)
    /\ UNCHANGED <<stats, courtStates, roundIdx>>
    /\ UNCHANGED <<setup, ladder, fixedTeamStats>>
    /\ UNCHANGED cloud

\* the partner of a player in a doubles match
PartnerOf(match, id) ==
    LET team == IF id \in Range(match.team1) THEN match.team1 ELSE match.team2
    IN  IF team[1] = id THEN team[2] ELSE team[1]

\* setPlayerStats of completeCourtMatch for a doubles match: the teammate counts of
\* the partners who both have an entry, one more round played for the four
DoublesCompleted(prev, match, currentRound) ==
    [id \in DOMAIN prev |->
        IF id \notin MatchIds(match) THEN prev[id]
        ELSE LET played == [prev[id] EXCEPT !.roundsPlayed = @ + 1,
                                            !.lastPlayedRound = currentRound]
             IN  IF PartnerOf(match, id) \in DOMAIN prev
                 THEN ("teammates" :> Bump(PlainTeammates(prev[id]), PartnerOf(match, id)))
                      @@ played
                 ELSE played]

\* setTeamStats of completeCourtMatch: the opponent counts when both teams have an
\* entry, one more round played for each team that has one
TeamsCompleted(prev, match, currentRound) ==
    [id \in DOMAIN prev |->
        IF id \notin {match.team1Id, match.team2Id} THEN prev[id]
        ELSE LET other == IF id = match.team1Id THEN match.team2Id ELSE match.team1Id
             IN  [prev[id] EXCEPT !.roundsPlayed = @ + 1,
                                  !.lastPlayedRound = currentRound,
                                  !.opponents = IF other \in DOMAIN prev THEN Bump(@, other)
                                                ELSE @]]

\* setPlayerStats of completeCourtMatch for a singles match: one more round played
\* for the two players who have an entry
SinglesCompleted(prev, match, currentRound) ==
    [id \in DOMAIN prev |->
        IF id \in {match.player1, match.player2}
        THEN [prev[id] EXCEPT !.roundsPlayed = @ + 1, !.lastPlayedRound = currentRound]
        ELSE prev[id]]

\* setPlayerStats of undoLastMatch: one round played less, never below 0, for the
\* players of the match who have an entry
Undone(prev, revertedMatch) ==
    LET playerIds == IF revertedMatch.gameFormat = "singles"
                     THEN {revertedMatch.player1, revertedMatch.player2}
                     ELSE Range(revertedMatch.team1) \cup Range(revertedMatch.team2)
    IN  [id \in DOMAIN prev |->
            IF id \in playerIds
            THEN [prev[id] EXCEPT !.roundsPlayed = Max2(0, (IF @ = 0 THEN 1 ELSE @) - 1)]
            ELSE prev[id]]

\* completeCourtMatch(courtNumber, nextStatus) on a court that has a match
CompleteCourtMatch ==
    /\ \E c \in DOMAIN courtStates : \E nextStatus \in {"ready", "cleaning"} :
         /\ courtStates[c].currentMatch # <<>>
         /\ LET match == courtStates[c].currentMatch[1]
                matchAlreadyInRounds ==
                    \E r \in DOMAIN rounds : \E i \in DOMAIN rounds[r] :
                        rounds[r][i].id = match.id
            IN  /\ courtStates' = [courtStates EXCEPT ![c].status = nextStatus,
                                                      ![c].currentMatch = <<>>]
                /\ IF tournamentType = "king_of_court"
                   THEN UNCHANGED <<rounds, stats, fixedTeamStats>>
                   ELSE /\ rounds' = IF matchAlreadyInRounds THEN rounds
                                     ELSE IF Len(rounds) = 0 \/ Len(rounds) <= roundIdx
                                     THEN Append(rounds, <<match>>)
                                     ELSE [rounds EXCEPT ![roundIdx + 1] = Append(@, match)]
                        /\ IF match.gameFormat = "singles"
                           THEN /\ stats' = SinglesCompleted(stats, match, roundIdx)
                                /\ UNCHANGED fixedTeamStats
                           ELSE IF match.gameFormat = "teamed_doubles"
                           THEN /\ fixedTeamStats' = TeamsCompleted(fixedTeamStats, match, roundIdx)
                                /\ UNCHANGED stats
                           ELSE /\ stats' = DoublesCompleted(stats, match, roundIdx)
                                /\ UNCHANGED fixedTeamStats
    /\ alertMsg' = ""
    /\ UNCHANGED roundIdx
    /\ UNCHANGED <<setup, ladder>>
    /\ UNCHANGED cloud

\* "Clear & Mark Ready" on a court that is being cleaned
ClearCourt ==
    /\ \E c \in DOMAIN courtStates :
         /\ courtStates[c].status = "cleaning"
         /\ courtStates' = [courtStates EXCEPT ![c].status = "ready",
                                               ![c].currentMatch = <<>>]
    /\ alertMsg' = ""
    /\ UNCHANGED <<rounds, stats, roundIdx>>
    /\ UNCHANGED <<setup, ladder, fixedTeamStats>>
    /\ UNCHANGED cloud

\* undoLastMatch, the confirmation accepted
UndoLastMatch ==
    /\ LET target == LastCompleted(rounds) IN
       IF target = <<0, 0>>
       THEN /\ alertMsg' = "No completed matches to undo."
            /\ UNCHANGED <<rounds, stats, courtStates>>
       ELSE LET revertedMatch == RevertedMatch(rounds[target[1]][target[2]])
            IN  /\ rounds' = [rounds EXCEPT ![target[1]][target[2]] = revertedMatch]
                /\ courtStates' =
                     [c \in DOMAIN courtStates |->
                        IF courtStates[c].courtNumber = revertedMatch.court
                        THEN [courtStates[c] EXCEPT !.status = "playing",
                                                    !.currentMatch = <<revertedMatch>>]
                        ELSE courtStates[c]]
                /\ stats' = Undone(stats, revertedMatch)
                /\ alertMsg' = ""
    /\ UNCHANGED roundIdx
    /\ UNCHANGED <<setup, ladder, fixedTeamStats>>
    /\ UNCHANGED cloud

SessionNext ==
    \/ GenerateNextRound
    \/ UpdateScore
    \/ QuickWin
    \/ CompleteCourtMatch
    \/ ClearCourt
    \/ UndoLastMatch

SessionSpec == SessionInit /\ [][SessionNext]_vars

(* ------------- a session of any tournament type and format ------------ *)
\* The rounds and the courts of a session are followed: the next round is asked
\* for, the matches on the courts are ended, the courts are cleaned.
TournamentRatings == <<30, 32, 36, 40>>

\* the teams of the session: team t is made of the players 2t - 1 and 2t
SessionTeams(k) ==
    [t \in 1..k |->
        [id |-> t, gender |-> "male_male",
         avgRating |-> (TournamentRatings[2 * t - 1] + TournamentRatings[2 * t]) \div 2,
         player1 |-> 2 * t - 1, player2 |-> 2 * t]]

TournamentInit ==
    /\ tournamentType \in {"round_robin", "king_of_court"}
    /\ format \in {"singles", "doubles", "teamed_doubles"}
    /\ \E n \in {1, 3, 4} : players = MkPlayers(n, [i \in 1..n |-> "male"], TournamentRatings)
    /\ \E k \in {1, 2} : teams = SessionTeams(k)
    /\ courts = 2
    /\ bySkill = FALSE /\ preferMixed = FALSE
    /\ stats = <<>>
    /\ roundIdx = 0
    /\ rounds = <<>>
    /\ courtStates = [c \in 1..courts |->
                        [courtNumber |-> c, status |-> "ready", currentMatch |-> <<>>]]
    /\ matchFormat = "single_match"
    /\ alertMsg = ""
    /\ bestSplit = <<>>
    /\ minPerLevel = 4 /\ separated = <<>>
    /\ ladderStats = <<>> /\ ladderTeamStats = <<>> /\ kotAutoTeams = <<>> /\ fixedTeamStats = <<>>
    /\ thrown = ""
    /\ CloudIdle

TournamentNext ==
    \/ GenerateNextRound
    \/ CompleteCourtMatch
    \/ ClearCourt

TournamentSpec == TournamentInit /\ [][TournamentNext]_vars

(* ------------- the match format handed to the schedulers -------------- *)
FormatRounds == 2

\* what a caller can hand over as the match format: the two formats of Setup, no
\* value at all, and a value that is neither
MatchFormats == {"single_match", "best_of_3", "undefined", "best_of_5"}

\* the default parameter matchFormat = 'single_match': it stands in for undefined
DefaultParameter(value, default) == IF value = "undefined" THEN default ELSE value

\* the matches with the match format the scheduler writes on them
WithMatchFormat(matches, mf) ==
    [i \in DOMAIN matches |-> ("matchFormat" :> mf) @@ matches[i]]

\* generateSinglesRound / generateRoundRobinRound called with the match format
\* given: the parameter takes its default, the typeof test follows, then the round
\* is generated; the possible [error, matches, stats] outcomes
CallScheduler(given) ==
    LET mf == DefaultParameter(given, "single_match")
        results == IF format = "singles"
                   THEN generateSinglesRound(players, courts, stats, roundIdx)
                   ELSE generateRoundRobinRound(players, courts, stats, roundIdx, bySkill,
                                                preferMixed, FemaleRestInterval, rounds)
    IN  IF mf = "undefined"
        THEN {[error |-> "Match format is not defined. Please select a valid match format in Setup.",
               matches |-> <<>>, stats |-> stats]}
        ELSE {[error |-> "", matches |-> WithMatchFormat(r.matches, mf), stats |-> r.stats] :
              r \in results}

FormatInit ==
    /\ format \in {"singles", "doubles"}
    /\ \E prof \in RatingProfiles, g \in SinglesGenders : players = MkPlayers(5, g, prof)
    /\ teams = <<>>
    /\ courts \in {1, 2}
    /\ bySkill = FALSE /\ preferMixed = FALSE
    /\ stats = <<>>
    /\ roundIdx = 0
    /\ rounds = <<>>
    /\ courtStates = <<>>
    /\ matchFormat \in MatchFormats
    /\ alertMsg = ""
    /\ bestSplit = <<>>
    /\ minPerLevel = 4 /\ separated = <<>>
    /\ tournamentType = "round_robin"
    /\ ladderStats = <<>> /\ ladderTeamStats = <<>> /\ kotAutoTeams = <<>> /\ fixedTeamStats = <<>>
    /\ thrown = ""
    /\ CloudIdle

\* a caller asks the scheduler of the format for the next round
ScheduleRound ==
    /\ roundIdx < FormatRounds
    /\ \E r \in CallScheduler(matchFormat) :
         /\ thrown' = r.error
         /\ stats' = r.stats
         /\ rounds' = IF r.error = "" THEN Append(rounds, r.matches) ELSE rounds
    /\ roundIdx' = roundIdx + 1
    /\ UNCHANGED <<format, players, teams, courts, bySkill, preferMixed, courtStates,
                   matchFormat, alertMsg, bestSplit, minPerLevel, separated, tournamentType,
                   ladder, fixedTeamStats>>
    /\ UNCHANGED cloud

FormatSpec == FormatInit /\ [][ScheduleRound]_vars

(* ------------- findBestTeamSplit (doubles) on groups of four ----------- *)
\* the ratings a group of four is drawn from: two tiers, two ratings in each
SplitRatings == {30, 34, 35, 39}
SplitGenders == {<<"male", "male", "male", "male">>, <<"male", "female", "male", "female">>}

SplitInit ==
    /\ format = "doubles"
    /\ \E g \in SplitGenders : \E a \in SplitRatings, b \in SplitRatings,
                                  c \in SplitRatings, d \in SplitRatings :
          players = MkPlayers(4, g, <<a, b, c, d>>)
    /\ teams = <<>>
    /\ courts = 1
    /\ bySkill = FALSE /\ preferMixed = FALSE
    /\ stats = DoublesInitializePlayerStats(<<>>, players)
    /\ roundIdx = 0
    /\ rounds = <<>>
    /\ courtStates = <<>> /\ matchFormat = "single_match" /\ alertMsg = ""
    /\ bestSplit = <<>>
    /\ minPerLevel = 4 /\ separated = <<>>
    /\ tournamentType = "round_robin"
    /\ ladderStats = <<>> /\ ladderTeamStats = <<>> /\ kotAutoTeams = <<>> /\ fixedTeamStats = <<>>
    /\ thrown = ""
    /\ CloudIdle

\* findBestTeamSplit(group, playerStats, preferMixedDoubles) on the group
BestTeamSplit ==
    /\ bestSplit = <<>>
    /\ bestSplit' = <<findBestTeamSplit(players, stats, preferMixed)>>
    /\ UNCHANGED <<format, players, teams, courts, bySkill, preferMixed, stats, roundIdx,
                   rounds, courtStates, matchFormat, alertMsg, minPerLevel, separated,
                   tournamentType, ladderStats, ladderTeamStats, kotAutoTeams, fixedTeamStats, thrown>>
    /\ UNCHANGED cloud

SplitNext == BestTeamSplit

SplitSpec == SplitInit /\ [][SplitNext]_vars

(* ---------------- separatePlayersBySkill as a function ---------------- *)
MaxPopulation == 5
MaxMinPerLevel == 3
PopulationRatings == {25, 32, 36, 41, 56}

RECURSIVE Populations(_)
\* the rating sequences of at most n players
Populations(n) ==
    IF n = 0 THEN {<<>>}
    ELSE LET shorter == Populations(n - 1)
         IN  shorter \cup {Append(q, r) : q \in {x \in shorter : Len(x) = n - 1}, r \in PopulationRatings}

SkillInit ==
    /\ format = "doubles"
    /\ \E prof \in Populations(MaxPopulation) :
          players = MkPlayers(Len(prof), [i \in DOMAIN prof |-> "male"], prof)
    /\ teams = <<>>
    /\ courts = 1
    /\ bySkill = TRUE /\ preferMixed = FALSE
    /\ stats = <<>>
    /\ roundIdx = 0
    /\ rounds = <<>>
    /\ courtStates = <<>> /\ matchFormat = "single_match" /\ alertMsg = ""
    /\ bestSplit = <<>>
    /\ minPerLevel \in 1..MaxMinPerLevel
    /\ separated = <<>>
    /\ tournamentType = "round_robin"
    /\ ladderStats = <<>> /\ ladderTeamStats = <<>> /\ kotAutoTeams = <<>> /\ fixedTeamStats = <<>>
    /\ thrown = ""
    /\ CloudIdle

\* separatePlayersBySkill(players, minPlayersPerLevel): the groups of its result
SeparatePlayers ==
    /\ separated = <<>>
    /\ separated' = <<separatePlayersBySkill(players, minPerLevel)>>
    /\ UNCHANGED <<format, players, teams, courts, bySkill, preferMixed, stats, roundIdx,
                   rounds, courtStates, matchFormat, alertMsg, bestSplit, minPerLevel,
                   tournamentType, ladderStats, ladderTeamStats, kotAutoTeams, fixedTeamStats, thrown>>
    /\ UNCHANGED cloud

SkillNext == SeparatePlayers

SkillSpec == SkillInit /\ [][SkillNext]_vars


(* ------------------ generateBalancedKOTTeams on its own ---------------- *)
MaxTeamPlayers == 5

TeamsInit ==
    /\ format = "doubles"
    /\ \E prof \in Populations(MaxTeamPlayers) :
          players = MkPlayers(Len(prof), [i \in DOMAIN prof |-> "male"], prof)
    /\ teams = <<>>
    /\ courts = 1
    /\ bySkill = FALSE /\ preferMixed = FALSE
    /\ stats = <<>>
    /\ roundIdx = 0
    /\ rounds = <<>>
    /\ courtStates = <<>> /\ matchFormat = "single_match" /\ alertMsg = ""
    /\ bestSplit = <<>>
    /\ minPerLevel = 4
    /\ separated = <<>>
    /\ tournamentType = "king_of_court"
    /\ ladderStats = <<>> /\ ladderTeamStats = <<>> /\ kotAutoTeams = <<>> /\ fixedTeamStats = <<>>
    /\ thrown = ""
    /\ CloudIdle

\* generateBalancedKOTTeams(players): the teams it returns
BalancedTeams ==
    /\ kotAutoTeams = <<>>
    /\ kotAutoTeams' = generateBalancedKOTTeams(players)
    /\ UNCHANGED <<format, players, teams, courts, bySkill, preferMixed, stats, roundIdx,
                   rounds, courtStates, matchFormat, alertMsg, bestSplit, minPerLevel, separated,
                   tournamentType, ladderStats, ladderTeamStats, fixedTeamStats, thrown>>
    /\ UNCHANGED cloud

TeamsNext == BalancedTeams

TeamsSpec == TeamsInit /\ [][TeamsNext]_vars

(* --------------------- a roster that changes between rounds ----------- *)
\* everybody who was ever entered, in the order of the players and teams lists
RosterPlayers == MkPlayers(5, <<"male", "male", "male", "female", "female">>, <<30, 32, 35, 35, 41>>)
RosterTeams == MkTeams(4, <<"male_male", "male_male", "male_male", "male_male">>, <<30, 33, 35, 38>>)

\* the smallest roster generateNextRound accepts for the format
MinRoster == IF format = "singles" THEN 2 ELSE IF format \in {"doubles", "kot"} THEN 4 ELSE 2

RosterInit ==
    /\ format \in {"singles", "doubles", "teamed_doubles", "kot", "kot_teamed"}
    /\ IF format \in {"teamed_doubles", "kot_teamed"}
       THEN players = <<>> /\ teams = RosterTeams
       ELSE players = RosterPlayers /\ teams = <<>>
    /\ courts = 1
    /\ bySkill = FALSE /\ preferMixed = FALSE
    /\ stats = <<>>
    /\ roundIdx = 0
    /\ rounds = <<>>
    /\ courtStates = <<>> /\ matchFormat = "single_match" /\ alertMsg = "" /\ bestSplit = <<>>
    /\ minPerLevel = 4 /\ separated = <<>>
    /\ tournamentType = (IF format \in {"kot", "kot_teamed"} THEN "king_of_court" ELSE "round_robin")
    /\ ladderStats = <<>> /\ ladderTeamStats = <<>> /\ kotAutoTeams = <<>> /\ fixedTeamStats = <<>>
    /\ thrown = ""
    /\ CloudIdle

\* togglePresent and removePlayer (removeTeam for teams): one entity leaves the
\* roster the next calls are given, or one that had left comes back
ChangeRoster ==
    /\ IF format \in {"teamed_doubles", "kot_teamed"}
       THEN /\ \E id \in Ids(RosterTeams) :
                 teams' = Filter(RosterTeams, IF id \in Ids(teams) THEN Ids(teams) \ {id}
                                              ELSE Ids(teams) \cup {id})
            /\ Len(teams') >= MinRoster
            /\ UNCHANGED players
       ELSE /\ \E id \in Ids(RosterPlayers) :
                 players' = Filter(RosterPlayers, IF id \in Ids(players) THEN Ids(players) \ {id}
                                                  ELSE Ids(players) \cup {id})
            /\ Len(players') >= MinRoster
            /\ UNCHANGED teams
    /\ UNCHANGED <<format, courts, bySkill, preferMixed, stats, roundIdx, rounds, courtStates,
                   matchFormat, alertMsg, bestSplit, minPerLevel, separated, tournamentType,
                   ladderStats, ladderTeamStats, kotAutoTeams, fixedTeamStats, thrown>>
    /\ UNCHANGED cloud

RosterNext == Next \/ ChangeRoster

RosterSpec == RosterInit /\ [][RosterNext]_vars

(* --------------------- manual assignment to a court -------------------- *)
MaxMatches == 3

\* getPlayersOnCourt: the players of the current matches of the courts
getPlayersOnCourt(cs) ==
    UNION {MatchIds(cs[c].currentMatch[1]) : c \in {x \in DOMAIN cs : cs[x].currentMatch # <<>>}}

\* availablePlayers: present and on no court
availablePlayers(presentPlayers, cs) ==
    Filter(presentPlayers, Ids(presentPlayers) \ getPlayersOnCourt(cs))

\* the sort of the assign functions: fewest rounds played first, then most sat out
SortByPriority(ps, playerStats) ==
    StableSortDesc(ps, [id \in Ids(ps) |->
                          IF id \in DOMAIN playerStats
                          THEN playerStats[id].roundsSatOut - 1000 * playerStats[id].roundsPlayed
                          ELSE 0])

\* setRounds of the assign functions: a new round when the last one is over,
\* else the match joins the last round
AddToRounds(prev, match) ==
    IF prev = <<>> THEN <<<<match>>>>
    ELSE IF \A i \in DOMAIN prev[Len(prev)] : prev[Len(prev)][i].status = "completed"
    THEN Append(prev, <<match>>)
    ELSE [prev EXCEPT ![Len(prev)] = Append(@, match)]

\* sameGenderCandidates of assignSinglesMatchToCourt
sameGenderCandidates(sortedAvailable, presentPlayers) ==
    SelectSeq(Tail(sortedAvailable), LAMBDA p : p.gender = sortedAvailable[1].gender)

\* assignMatchToCourt(courtNumber, true) in a round robin of singles, on a court
\* without a match: assignSinglesMatchToCourt
AssignSinglesMatchToCourt ==
    /\ tournamentType = "round_robin" /\ format = "singles"
    /\ SumOver([r \in DOMAIN rounds |-> Len(rounds[r])], DOMAIN rounds) < MaxMatches
    /\ \E c \in DOMAIN courtStates :
         /\ courtStates[c].currentMatch = <<>>
         /\ LET available == availablePlayers(players, courtStates)
                sortedAvailable == SortByPriority(available, stats)
            IN  IF Len(available) < 2
                THEN /\ alertMsg' = "Need at least 2 available players (not currently playing)"
                     /\ UNCHANGED <<rounds, stats, courtStates, roundIdx>>
                ELSE LET player1 == sortedAvailable[1]
                         cands == sameGenderCandidates(sortedAvailable, players)
                         skillCompatible == SelectSeq(cands, LAMBDA p : canPlayTogether(player1, p))
                     IN  IF cands = <<>>
                         THEN /\ alertMsg' = "Cannot assign singles match"
                              /\ UNCHANGED <<rounds, stats, courtStates, roundIdx>>
                         ELSE LET player2 == IF bySkill /\ Len(players) >= 8 /\ skillCompatible # <<>>
                                             THEN skillCompatible[1] ELSE cands[1]
                                  match == ScoreCard([court |-> courtStates[c].courtNumber,
                                                      player1 |-> player1.id, player2 |-> player2.id,
                                                      diff |-> Abs(player1.rating - player2.rating),
                                                      status |-> "pending", winner |-> "none",
                                                      gameFormat |-> "singles"],
                                                     uid(rounds, 1), matchFormat)
                              IN  /\ courtStates' = [courtStates EXCEPT ![c].status = "playing",
                                                                        ![c].currentMatch = <<match>>]
                                  /\ rounds' = AddToRounds(rounds, match)
                                  /\ roundIdx' = IF Len(rounds) > 0
                                                    /\ \A i \in DOMAIN rounds[Len(rounds)] :
                                                          rounds[Len(rounds)][i].status = "completed"
                                                 THEN Len(rounds) ELSE roundIdx
                                  /\ stats' = [id \in DOMAIN stats \cup {player1.id, player2.id} |->
                                                 IF id \in DOMAIN stats THEN stats[id]
                                                 ELSE NewSessionEntry]
                                  /\ alertMsg' = ""
    /\ UNCHANGED <<setup, ladder, fixedTeamStats>>
    /\ UNCHANGED cloud

\* rounds are asked for, matches are put on free courts by hand, courts are ended
\* and cleaned; no score is entered
CourtNext ==
    \/ GenerateNextRound
    \/ AssignSinglesMatchToCourt
    \/ CompleteCourtMatch
    \/ ClearCourt

CourtSpec == SessionInit /\ [][CourtNext]_vars

(* ----------- MigrationPrompt and utils/localStorageMigration.js -------- *)
\* the tournament manager's own state, which the code below never touches
scheduling == <<format, players, teams, courts, bySkill, preferMixed, stats, roundIdx, rounds,
                courtStates, matchFormat, alertMsg, bestSplit, minPerLevel, separated,
                tournamentType, ladderStats, ladderTeamStats, kotAutoTeams, fixedTeamStats,
                thrown>>

SchedulingIdle ==
    /\ format = "doubles" /\ players = <<>> /\ teams = <<>> /\ courts = 1
    /\ bySkill = FALSE /\ preferMixed = FALSE
    /\ stats = <<>> /\ roundIdx = 0 /\ rounds = <<>>
    /\ courtStates = <<>> /\ matchFormat = "single_match" /\ alertMsg = "" /\ bestSplit = <<>>
    /\ minPerLevel = 4 /\ separated = <<>>
    /\ tournamentType = "round_robin"
    /\ ladderStats = <<>> /\ ladderTeamStats = <<>> /\ kotAutoTeams = <<>> /\ fixedTeamStats = <<>>
    /\ thrown = ""

\* localStorage.getItem answers null for a key that is not stored
Null == "null"
getItem(storage, key) == IF key \in DOMAIN storage THEN storage[key] ELSE Null
setItem(storage, key, value) ==
    [k \in DOMAIN storage \cup {key} |-> IF k = key THEN value ELSE storage[k]]
removeItem(storage, key) == [k \in DOMAIN storage \ {key} |-> storage[k]]

\* the texts an older version of the application, or anything else, may have stored
RosterItems == {"[]", "[p1]", "[p1,p2]", "[null]", "not json"}
SessionItems == {"{tournamentType}", "{}", "not json"}

\* JSON.parse: whether it returns, and what it returns
Parses(item) == item # "not json"
ParsedRoster(item) ==
    IF item = "[p1]" THEN <<"p1">>
    ELSE IF item = "[p1,p2]" THEN <<"p1", "p2">>
    ELSE IF item = "[null]" THEN <<Null>>
    ELSE <<>>
\* a session is known here by its tournamentType, "" when it has none
ParsedSession(item) ==
    IF item = "{tournamentType}" THEN [isNull |-> FALSE, tournamentType |-> "round_robin"]
    ELSE [isNull |-> FALSE, tournamentType |-> ""]
NullSession == [isNull |-> TRUE, tournamentType |-> ""]

hasLocalStorageData(storage) ==
    getItem(storage, "pb_roster") # Null \/ getItem(storage, "pb_session") # Null

\* getLocalStorageData: a parse error on either item gives the empty answer for both
getLocalStorageData(storage) ==
    LET rosterData == getItem(storage, "pb_roster")
        sessionData == getItem(storage, "pb_session")
    IN  IF (rosterData # Null /\ ~Parses(rosterData)) \/ (sessionData # Null /\ ~Parses(sessionData))
        THEN [roster |-> <<>>, session |-> NullSession]
        ELSE [roster |-> IF rosterData # Null THEN ParsedRoster(rosterData) ELSE <<>>,
              session |-> IF sessionData # Null THEN ParsedSession(sessionData) ELSE NullSession]

clearLocalStorageData(storage) == removeItem(removeItem(storage, "pb_roster"), "pb_session")

NoResults == [players |-> [success |-> 0, failed |-> 0], tournament |-> [success |-> 0, failed |-> 0]]

\* migrateToBackend, the part about the session: where the migration goes once the
\* players are dealt with
AfterPlayers(session) ==
    IF ~session.isNull /\ session.tournamentType # "" THEN "tournament" ELSE "finish"

MigrationInit ==
    /\ SchedulingIdle
    /\ \E keys \in SUBSET {"pb_roster", "pb_session", "migration_completed"} :
         \E r \in RosterItems, s \in SessionItems :
            localStorage = [k \in keys |-> IF k = "pb_roster" THEN r
                                           ELSE IF k = "pb_session" THEN s ELSE "true"]
    /\ prompt = [pc |-> "unmounted", showPrompt |-> FALSE, migrating |-> FALSE,
                 migrationComplete |-> FALSE, migrationResults |-> NoResults,
                 data |-> [roster |-> <<>>, session |-> NullSession], alert |-> ""]
    /\ tournamentsTable = <<>>
    /\ handlers = <<>>
    /\ sync = SyncIdle

\* the effect run when the component mounts
MountPrompt ==
    /\ prompt.pc = "unmounted"
    /\ prompt' = [prompt EXCEPT !.pc = "idle",
                     !.showPrompt = (getItem(localStorage, "migration_completed") = Null
                                     /\ hasLocalStorageData(localStorage))]
    /\ UNCHANGED <<scheduling, localStorage, tournamentsTable, handlers, sync>>

\* handleMigrate up to its first await: the backup, the data read, and the players'
\* request built (reading player.name of a null entry throws)
HandleMigrate ==
    /\ prompt.pc = "idle" /\ prompt.showPrompt /\ ~prompt.migrating /\ ~prompt.migrationComplete
    /\ LET data == getLocalStorageData(localStorage) IN
       IF Len(data.roster) > 0 /\ Null \in Range(data.roster)
       THEN prompt' = [prompt EXCEPT !.alert = "Migration failed. Your data has been backed up. Please try again or contact support."]
       ELSE prompt' = [prompt EXCEPT !.migrating = TRUE, !.data = data, !.alert = "",
                          !.migrationResults = NoResults,
                          !.pc = IF Len(data.roster) > 0 THEN "players"
                                 ELSE AfterPlayers(data.session)]
    /\ UNCHANGED <<scheduling, localStorage, tournamentsTable, handlers, sync>>

\* api.players.bulkCreate answers: fetchAPI never throws, it answers success or not
BulkCreateAnswers ==
    /\ prompt.pc = "players"
    /\ \E success \in BOOLEAN :
         prompt' = [prompt EXCEPT
            !.migrationResults.players =
                IF success THEN [success |-> Len(prompt.data.roster), failed |-> 0]
                ELSE [success |-> 0, failed |-> Len(prompt.data.roster)],
            !.pc = AfterPlayers(prompt.data.session)]
    /\ UNCHANGED <<scheduling, localStorage, tournamentsTable, handlers, sync>>

\* api.tournaments.create answers
CreateAnswers ==
    /\ prompt.pc = "tournament"
    /\ \E success \in BOOLEAN :
         prompt' = [prompt EXCEPT
            !.migrationResults.tournament =
                IF success THEN [success |-> 1, failed |-> 0] ELSE [success |-> 0, failed |-> 1],
            !.pc = "finish"]
    /\ UNCHANGED <<scheduling, localStorage, tournamentsTable, handlers, sync>>

\* handleMigrate after migrateToBackend has returned its results
FinishMigration ==
    /\ prompt.pc = "finish"
    /\ prompt' = [prompt EXCEPT !.pc = "done", !.migrationComplete = TRUE, !.migrating = FALSE]
    /\ localStorage' = setItem(clearLocalStorageData(localStorage), "migration_completed", "true")
    /\ UNCHANGED <<scheduling, tournamentsTable, handlers, sync>>

\* the five seconds' timeout, or the Continue button
HidePrompt ==
    /\ prompt.pc = "done" /\ prompt.showPrompt
    /\ prompt' = [prompt EXCEPT !.showPrompt = FALSE]
    /\ UNCHANGED <<scheduling, localStorage, tournamentsTable, handlers, sync>>

handleSkip ==
    /\ prompt.pc = "idle" /\ prompt.showPrompt /\ ~prompt.migrating /\ ~prompt.migrationComplete
    /\ localStorage' = setItem(localStorage, "migration_completed", "true")
    /\ prompt' = [prompt EXCEPT !.showPrompt = FALSE]
    /\ UNCHANGED <<scheduling, tournamentsTable, handlers, sync>>

MigrationNext ==
    \/ MountPrompt
    \/ HandleMigrate
    \/ BulkCreateAnswers
    \/ CreateAnswers
    \/ FinishMigration
    \/ HidePrompt
    \/ handleSkip

MigrationSpec == MigrationInit /\ [][MigrationNext]_vars

(* ------------------- sessionController.js (the server) ------------------ *)
MaxRequests == 3

Rows(table) == {table[i] : i \in DOMAIN table}

\* NOW() on a clock that every write moves on
Now(table) == 1 + SeqMax(<<0>> \o [i \in DOMAIN table |-> table[i].updated_at])

\* SELECT id ... ORDER BY updated_at DESC LIMIT 1: the ids the query may answer
MostRecent(table) ==
    {r.id : r \in {x \in Rows(table) : \A y \in Rows(table) : y.updated_at <= x.updated_at}}

\* UPDATE ... SET tournament_data, is_active_session = TRUE, updated_at = NOW() WHERE id = $5
UpdateRow(table, id, body) ==
    [i \in DOMAIN table |->
        IF table[i].id = id
        THEN [table[i] EXCEPT !.tournament_data = body, !.is_active_session = TRUE,
                              !.updated_at = Now(table)]
        ELSE table[i]]

\* INSERT INTO tournaments (..., is_active_session) VALUES (..., TRUE)
InsertRow(table, body) ==
    Append(table, [id |-> Len(table) + 1, tournament_data |-> body,
                   is_active_session |-> TRUE, updated_at |-> Now(table)])

\* UPDATE tournaments SET is_active_session = FALSE WHERE user_id = $1 AND is_active_session = TRUE
ClearActive(table) == [i \in DOMAIN table |-> [table[i] EXCEPT !.is_active_session = FALSE]]

ServerInit ==
    /\ SchedulingIdle
    /\ localStorage = <<>>
    /\ prompt = [pc |-> "hidden"]
    /\ sync = SyncIdle
    /\ handlers = <<>>
    /\ \/ tournamentsTable = <<>>
       \/ \E active \in BOOLEAN :
            tournamentsTable = <<[id |-> 1, tournament_data |-> 0,
                                  is_active_session |-> active, updated_at |-> 1]>>

\* PUT /api/session or DELETE /api/session arrives and its handler starts
ReceiveRequest ==
    /\ Len(handlers) < MaxRequests
    /\ \E kind \in {"saveSession", "clearSession"} :
         handlers' = Append(handlers, [kind |-> kind, pc |-> "query", existing |-> 0])
    /\ UNCHANGED <<scheduling, localStorage, prompt, tournamentsTable, sync>>

\* saveSession: the SELECT of the most recent row of the user
SaveSelect ==
    /\ \E h \in DOMAIN handlers :
         /\ handlers[h].kind = "saveSession" /\ handlers[h].pc = "query"
         /\ \E id \in (IF tournamentsTable = <<>> THEN {0} ELSE MostRecent(tournamentsTable)) :
              handlers' = [handlers EXCEPT ![h].existing = id, ![h].pc = "write"]
    /\ UNCHANGED <<scheduling, localStorage, prompt, tournamentsTable, sync>>

\* saveSession: the UPDATE of the row found, or the INSERT when none was found
SaveWrite ==
    /\ \E h \in DOMAIN handlers :
         /\ handlers[h].kind = "saveSession" /\ handlers[h].pc = "write"
         /\ tournamentsTable' = IF handlers[h].existing > 0
                                THEN UpdateRow(tournamentsTable, handlers[h].existing, h)
                                ELSE InsertRow(tournamentsTable, h)
         /\ handlers' = [handlers EXCEPT ![h].pc = "answered"]
    /\ UNCHANGED <<scheduling, localStorage, prompt, sync>>

\* clearSession: its one UPDATE
ClearUpdate ==
    /\ \E h \in DOMAIN handlers :
         /\ handlers[h].kind = "clearSession" /\ handlers[h].pc = "query"
         /\ tournamentsTable' = ClearActive(tournamentsTable)
         /\ handlers' = [handlers EXCEPT ![h].pc = "answered"]
    /\ UNCHANGED <<scheduling, localStorage, prompt, sync>>

ServerNext == ReceiveRequest \/ SaveSelect \/ SaveWrite \/ ClearUpdate

ServerSpec == ServerInit /\ [][ServerNext]_vars

(* ---------------------- useSessionSync (the client) --------------------- *)
DEBOUNCE_MS == 3000
\* the clock moves in thirds of the debounce delay, MaxTicks times
TickMs == DEBOUNCE_MS \div 3
MaxTicks == 6
MaxSnapshots == 3

getToken(storage) == getItem(storage, "token")

\* setTimeout and clearTimeout on the browser's table of scheduled callbacks; the
\* handle of the timer that is to send snapshot n is n
setTimeout(timers, handle, now) == timers \cup {[handle |-> handle, due |-> now + DEBOUNCE_MS]}
clearTimeoutForgotten(timers, handle) == timers
clearTimeout(timers, handle) == {t \in timers : t.handle # handle}

SyncInit ==
    /\ SchedulingIdle
    /\ \/ localStorage = <<>>
       \/ localStorage = [k \in {"token"} |-> "jwt"]
    /\ prompt = [pc |-> "hidden"]
    /\ tournamentsTable = <<>>
    /\ handlers = <<>>
    /\ sync = SyncIdle

\* saveSession(snapshot): the pending timer is cancelled and a new one started
SaveSessionCall ==
    /\ Len(sync.taken) < MaxSnapshots
    /\ LET snapshot == Len(sync.taken) + 1
           cancelled == IF sync.debounceTimer # 0
                        THEN clearTimeout(sync.timers, sync.debounceTimer) ELSE sync.timers
       IN  sync' = [sync EXCEPT !.timers = setTimeout(cancelled, snapshot, sync.now),
                                !.debounceTimer = snapshot,
                                !.taken = Append(@, sync.now)]
    /\ UNCHANGED <<scheduling, localStorage, prompt, tournamentsTable, handlers>>

\* the timer's callback runs, DEBOUNCE_MS or more after it was set: the PUT is issued
\* unless there is no token
TimerFires ==
    /\ \E t \in sync.timers :
         /\ sync.now >= t.due
         /\ sync' = [sync EXCEPT
                !.timers = @ \ {t},
                !.issued = IF getToken(localStorage) = Null THEN @
                           ELSE Append(@, [method |-> "PUT", snapshot |-> t.handle])]
    /\ UNCHANGED <<scheduling, localStorage, prompt, tournamentsTable, handlers>>

\* clearSession(): the pending timer is cancelled and the DELETE issued
ClearSessionCall ==
    /\ Len(sync.issued) < MaxSnapshots + 2
    /\ sync' = [sync EXCEPT
            !.timers = IF sync.debounceTimer # 0
                       THEN clearTimeout(@, sync.debounceTimer) ELSE @,
            !.debounceTimer = IF sync.debounceTimer # 0 THEN 0 ELSE @,
            !.issued = IF getToken(localStorage) = Null THEN @
                       ELSE Append(@, [method |-> "DELETE", snapshot |-> Len(sync.taken)])]
    /\ UNCHANGED <<scheduling, localStorage, prompt, tournamentsTable, handlers>>

\* time passes; a callback that is due may still be waiting for its turn
Tick ==
    /\ sync.now < MaxTicks * TickMs
    /\ sync' = [sync EXCEPT !.now = @ + TickMs]
    /\ UNCHANGED <<scheduling, localStorage, prompt, tournamentsTable, handlers>>

SyncNext == SaveSessionCall \/ TimerFires \/ ClearSessionCall \/ Tick

SyncSpec == SyncInit /\ [][SyncNext]_vars

(* ------------------ doubles sessions with a fixed roster ---------------- *)
\* five men, the last of them rated far above the others, on one or two courts; and
\* eight men of two skill levels, separated by skill, on one court
FairProfile == <<30, 31, 32, 33, 42>>

FairInit ==
    /\ format = "doubles"
    /\ teams = <<>>
    /\ preferMixed = FALSE
    /\ \/ /\ players = MkPlayers(5, [i \in 1..5 |-> "male"], FairProfile)
          /\ courts \in {1, 2}
          /\ bySkill = FALSE
       \/ /\ players = MkPlayers(8, [i \in 1..8 |-> "male"], EightProfile)
          /\ courts = 1
          /\ bySkill = TRUE
    /\ stats = <<>>
    /\ roundIdx = 0
    /\ rounds = <<>>
    /\ courtStates = <<>> /\ matchFormat = "single_match" /\ alertMsg = "" /\ bestSplit = <<>>
    /\ minPerLevel = 4 /\ separated = <<>>
    /\ tournamentType = "round_robin"
    /\ ladderStats = <<>> /\ ladderTeamStats = <<>> /\ kotAutoTeams = <<>> /\ fixedTeamStats = <<>>
    /\ thrown = ""
    /\ CloudIdle

FairSpec == FairInit /\ [][DoublesRound]_vars

(* ---------- the fairness sweep on two matches with a player waiting ------ *)
\* nine men in two skill levels on three courts: the level of five is given two
\* courts, so all five are selected, and its one match leaves out whoever the
\* group search does not pick; the fifth is more than 0.5 away from everybody
SweepProfile == <<20, 21, 22, 23, 29, 35, 36, 37, 38>>

SweepInit ==
    /\ format = "doubles"
    /\ teams = <<>>
    /\ players = MkPlayers(9, [i \in 1..9 |-> "male"], SweepProfile)
    /\ courts = 3
    /\ bySkill = TRUE /\ preferMixed = FALSE
    /\ rounds = <<>> /\ roundIdx = 0 /\ stats = <<>>
    /\ courtStates = <<>> /\ matchFormat = "single_match" /\ alertMsg = "" /\ bestSplit = <<>>
    /\ minPerLevel = 4 /\ separated = <<>>
    /\ tournamentType = "round_robin"
    /\ ladderStats = <<>> /\ ladderTeamStats = <<>> /\ kotAutoTeams = <<>> /\ fixedTeamStats = <<>>
    /\ thrown = ""
    /\ CloudIdle

SweepSpec == SweepInit /\ [][DoublesRound]_vars

(* ------------- the gender-aware selector on rosters of seven ----------- *)
SelectProfile == <<30, 31, 32, 33, 34, 30, 31>>

\* seven players of whom the first k are women, one court, mixed preference on
SelectInit ==
    /\ format = "doubles"
    /\ teams = <<>>
    /\ \E k \in 0..7 :
         players = MkPlayers(7, [i \in 1..7 |-> IF i <= k THEN "female" ELSE "male"], SelectProfile)
    /\ courts = 1
    /\ bySkill = FALSE /\ preferMixed = TRUE
    /\ rounds = <<>> /\ roundIdx = 0 /\ stats = <<>>
    /\ courtStates = <<>> /\ matchFormat = "single_match" /\ alertMsg = "" /\ bestSplit = <<>>
    /\ minPerLevel = 4 /\ separated = <<>>
    /\ tournamentType = "round_robin"
    /\ ladderStats = <<>> /\ ladderTeamStats = <<>> /\ kotAutoTeams = <<>> /\ fixedTeamStats = <<>>
    /\ thrown = ""
    /\ CloudIdle

SelectSpec == SelectInit /\ [][DoublesRound]_vars

(* ------------------------------ properties ----------------------------- *)

RoundRobinFormats == {"singles", "doubles", "teamed_doubles"}
LadderFormats == {"kot", "kot_teamed"}

\* the roster given to every generator call of the scenario
Roster == IF format \in {"teamed_doubles", "kot_teamed"} THEN Ids(teams) ELSE Ids(players)

Played(st, id) == IF id \in DOMAIN st THEN st[id].roundsPlayed ELSE 0
SatOut(st, id) == IF id \in DOMAIN st THEN st[id].roundsSatOut ELSE 0

\* the step is a generator call
IsGeneratorCall == roundIdx' = roundIdx + 1

\* the participants of a match, one entry per slot
Slots(m) ==
    IF m.gameFormat = "singles" THEN <<m.player1, m.player2>>
    ELSE IF m.gameFormat = "teamed_doubles" THEN <<m.team1Id, m.team2Id>>
    ELSE m.team1 \o m.team2

RECURSIVE AllSlots(_)
AllSlots(matches) == IF matches = <<>> THEN <<>> ELSE Slots(Head(matches)) \o AllSlots(Tail(matches))

NoRepeat(s) == \A i, j \in DOMAIN s : i # j => s[i] # s[j]

\* C1: no player or team id fills two slots of the matches one generator call returns,
\* in whatever format, skill separation, overflow fill and fairness sweep included
C1_NoIdTwiceInARound == \A r \in DOMAIN rounds : NoRepeat(AllSlots(rounds[r]))

Women == {q.id : q \in {x \in Range(players) : x.gender = "female"}}

\* a round of the six-player mixed-preference session in which the fairness sweep
\* has put a man in for a woman, and a three-court round with its overflow match
C1_Witness_SweepSwapped ==
    /\ format = "doubles" /\ Len(players) = 6 /\ preferMixed
    /\ \E r \in DOMAIN rounds : Len(rounds[r]) = 1 /\ ~(Women \subseteq PlayingIds(rounds[r]))

\* exactly one of roundsPlayed and roundsSatOut of the entity goes up, by one
OneCounterUp(id) ==
    LET dp == Played(stats', id) - Played(stats, id)
        ds == SatOut(stats', id) - SatOut(stats, id)
    IN  (dp = 1 /\ ds = 0) \/ (dp = 0 /\ ds = 1)

C2_Step ==
    (format \in RoundRobinFormats /\ IsGeneratorCall) =>
        \A id \in Roster : OneCounterUp(id) /\ Played(stats', id) + SatOut(stats', id) = roundIdx'

\* C2: from empty stats, every call of a round-robin generator (singles, doubles, teamed
\* doubles) with the same roster raises exactly one of roundsPlayed and roundsSatOut by
\* one for every member, so the two sum to the number of calls made
C2_OneCounterPerCall == [][C2_Step]_vars

C2_Witness_ThirdRound ==
    /\ format \in RoundRobinFormats /\ roundIdx >= 3
    /\ \E id \in Roster : SatOut(stats, id) >= 1 /\ Played(stats, id) >= 1
    /\ \E id \in Roster : Played(stats, id) = roundIdx

\* C3 as stated: every ladder call (individual or teamed, with or without skill
\* separation) raises exactly one of the two counters by one for every present entity
C3_LadderOneCounterPerCall ==
    [][(format \in LadderFormats /\ IsGeneratorCall) => \A id \in Roster : OneCounterUp(id)]_vars

Points(st, id) == IF id \in DOMAIN st THEN st[id].totalPoints ELSE 0
KingWins(st, id) == IF id \in DOMAIN st THEN st[id].court1Wins ELSE 0

\* the matches the step completes
CompletedNow ==
    {rm \in (DOMAIN rounds) \X (1..4) :
        /\ rm[2] \in DOMAIN rounds[rm[1]]
        /\ rounds[rm[1]][rm[2]].status = "pending"
        /\ rounds'[rm[1]][rm[2]].status = "completed"}

C6_Step ==
    format \in LadderFormats =>
        \A id \in Roster :
            LET won == {rm \in CompletedNow :
                           LET m == rounds'[rm[1]][rm[2]]
                           IN  m.winner # "none" /\ SideOf(m, id) = m.winner}
                gained == SumOver([rm \in won |-> rounds'[rm[1]][rm[2]].pointsForWin], won)
                kings == Cardinality({rm \in won : rounds'[rm[1]][rm[2]].courtLevel = "KING"})
            IN  /\ Points(stats', id) = Points(stats, id) + gained
                /\ KingWins(stats', id) = KingWins(stats, id) + kings
                /\ (IsGeneratorCall => won = {})

\* C6: in a ladder session totalPoints and court1Wins change only when a match is
\* completed with a winner: each winner gains the match's pointsForWin, and one
\* court1Wins exactly when the match is on the King court; losers gain nothing and
\* generating a round changes neither
C6_PointsOnlyOnCompletion == [][C6_Step]_vars

C6_Witness_LowerCourtWin ==
    /\ format \in LadderFormats /\ roundIdx >= 2
    /\ \E id \in Roster : Points(stats, id) > 0 /\ KingWins(stats, id) = 0
    /\ \E id \in Roster : KingWins(stats, id) > 0

C7_Step ==
    (format = "doubles" /\ ~bySkill /\ Len(players) >= 4 /\ courts >= 1 /\ IsGeneratorCall) =>
        LET new == rounds'[Len(rounds')]
            expected == Min2(courts, Len(players) \div 4)
        IN  /\ Len(new) = expected
            /\ \A i \in DOMAIN new :
                  /\ Len(new[i].team1) = 2 /\ Len(new[i].team2) = 2
                  /\ new[i].team1[1] # new[i].team1[2]
                  /\ new[i].team2[1] # new[i].team2[2]
            /\ Cardinality({id \in Roster : SatOut(stats', id) = SatOut(stats, id) + 1})
                  = Len(players) - 4 * expected
            /\ \A id \in Roster : SatOut(stats', id) - SatOut(stats, id) \in {0, 1}

\* C7: without skill separation generateRoundRobinRound returns min(courts, n div 4)
\* matches of two sides of two distinct players each, and records n - 4 * that many
\* sat-outs; eight players on two courts give two matches and nobody sits out
C7_FullCourtsOfFour == [][C7_Step]_vars

C7_Witness_EightOnTwoCourts ==
    /\ format = "doubles" /\ ~bySkill /\ Len(players) = 8 /\ courts = 2 /\ roundIdx = 1
    /\ Len(rounds[1]) = 2
    /\ \A id \in Roster : SatOut(stats, id) = 0 /\ Played(stats, id) = 1

\* C8 as stated: with five present players and one court generateSinglesRound returns
\* one match in every round, whatever the genders and ratings
C8_FivePlayersOneMatch ==
    (format = "singles" /\ Len(players) = 5 /\ courts = 1) =>
        \A r \in DOMAIN rounds : Len(rounds[r]) = 1

\* C9 as stated: with a fixed singles roster larger than the slots, in every round after
\* the first each player who sat out the preceding round has a higher selection priority
\* than each player who played in it
C9_SatOutAheadOfPlayed ==
    (format = "singles" /\ roundIdx >= 1 /\ Len(players) > 2 * courts) =>
        \A a \in Roster \ PlayingIds(rounds[Len(rounds)]), b \in PlayingIds(rounds[Len(rounds)]) :
            StandardPriorityK(stats, a, roundIdx) > StandardPriorityK(stats, b, roundIdx)

(* ----------------------- session properties --------------------------- *)
\* the <<round, match>> positions of the rounds
Positions(rs) == UNION {{<<r, i>> : i \in DOMAIN rs[r]} : r \in DOMAIN rs}

\* no completed match comes after position p in the scan order of the rounds
IsLastCompleted(rs, p) ==
    /\ rs[p[1]][p[2]].status = "completed"
    /\ \A q \in Positions(rs) :
          rs[q[1]][q[2]].status = "completed" =>
              (q[1] < p[1] \/ (q[1] = p[1] /\ q[2] <= p[2]))

AllBlank(m) ==
    \A f \in {"score1", "score2", "game1Score1", "game1Score2", "game2Score1",
              "game2Score2", "game3Score1", "game3Score2"} : m[f] = Blank

C4_StaysCompleted(p) ==
    /\ rounds'[p[1]][p[2]].status = "completed"
    /\ rounds'[p[1]][p[2]].winner = rounds[p[1]][p[2]].winner

C4_UndoneHere(p) ==
    LET n == rounds'[p[1]][p[2]] IN
    /\ IsLastCompleted(rounds, p)
    /\ n.status = "pending" /\ n.winner = "none" /\ AllBlank(n)
    /\ \A q \in Positions(rounds) \ {p} : rounds'[q[1]][q[2]] = rounds[q[1]][q[2]]
    /\ courtStates'[n.court].status = "playing"
    /\ courtStates'[n.court].currentMatch = <<n>>

C4_Step ==
    \A p \in Positions(rounds) :
        LET m == rounds[p[1]][p[2]]
            n == rounds'[p[1]][p[2]]
        IN  /\ m.status \in {"pending", "completed"}
            /\ m.status = "pending" =>
                  \/ n.status = "pending" /\ n.winner = "none"
                  \/ n.status = "completed" /\ n.winner \in {"team1", "team2"}
            /\ m.status = "completed" => (C4_StaysCompleted(p) \/ C4_UndoneHere(p))

C5_Score(m, game, side) ==
    IF m.matchFormat = "best_of_3"
    THEN (IF game = 1 THEN (IF side = 1 THEN m.game1Score1 ELSE m.game1Score2)
          ELSE IF game = 2 THEN (IF side = 1 THEN m.game2Score1 ELSE m.game2Score2)
          ELSE (IF side = 1 THEN m.game3Score1 ELSE m.game3Score2))
    ELSE (IF side = 1 THEN m.score1 ELSE m.score2)

C5_GameMissing(m, game) == C5_Score(m, game, 1) = Blank \/ C5_Score(m, game, 2) = Blank
C5_GameTied(m, game) == ~C5_GameMissing(m, game) /\ C5_Score(m, game, 1) = C5_Score(m, game, 2)
C5_Won(m, game, side) ==
    /\ ~C5_GameMissing(m, game)
    /\ C5_Score(m, game, side) > C5_Score(m, game, 3 - side)

\* the games that count: the single game, or games 1 and 2 and, when they are
\* split, game 3
C5_Games(m) ==
    IF m.matchFormat # "best_of_3" THEN {1}
    ELSE IF \E s \in {1, 2} : C5_Won(m, 1, s) /\ C5_Won(m, 2, 3 - s) THEN {1, 2, 3}
    ELSE {1, 2}

C5_GamesWon(m, side) == Cardinality({g \in C5_Games(m) : C5_Won(m, g, side)})

\* the declared side contradicts the score, or a score is missing or tied
C5_BadInput(m, side) ==
    \/ \E g \in C5_Games(m) : C5_GameMissing(m, g) \/ C5_GameTied(m, g)
    \/ C5_GamesWon(m, side) < C5_GamesWon(m, 3 - side)

QuickWinAlerts ==
    {"Please enter scores for Game 1 and Game 2 before selecting a winner.",
     "Game 1 cannot be tied.", "Game 2 cannot be tied.",
     "Match is tied 1-1. Please enter Game 3 scores before selecting a winner.",
     "Game 3 cannot be tied.", "Score validation failed",
     "Please enter scores before selecting a winner.", "Scores cannot be tied."}

C5_Step ==
    /\ \A p \in Positions(rounds) : \A side \in {1, 2} :
          LET m == rounds[p[1]][p[2]] IN
          (m.status = "pending" /\ C5_BadInput(m, side)) =>
              /\ quickWin(rounds, p[1], p[2], side) = rounds
              /\ quickWinAlert(m, side) \in QuickWinAlerts
              /\ ~(rounds'[p[1]][p[2]].status = "completed"
                    /\ rounds'[p[1]][p[2]].winner = (IF side = 1 THEN "team1" ELSE "team2"))
    /\ alertMsg' \in QuickWinAlerts =>
          /\ UNCHANGED <<rounds, stats, courtStates, roundIdx>>
          /\ \E p \in Positions(rounds) :
                rounds'[p[1]][p[2]].status = "pending" /\ rounds'[p[1]][p[2]].winner = "none"

\* C5: quickWin with a declared side that contradicts the entered score, or
\* with a missing or tied score, is rejected: the match stays pending with no
\* winner and the rounds, the player stats and the courts are left as they were.
C5_RejectedQuickWinChangesNothing == [][C5_Step]_vars

\* a winner was declared against the entered score and the call was rejected
C5_Witness_Contradicted ==
    /\ alertMsg = "Score validation failed"
    /\ \E p \in Positions(rounds) : \E side \in {1, 2} :
          LET m == rounds[p[1]][p[2]] IN
          /\ m.status = "pending" /\ m.winner = "none"
          /\ C5_GamesWon(m, side) < C5_GamesWon(m, 3 - side)

(* ------------------------ team split properties ------------------------ *)
\* twice the difference between the two sides' average ratings, in tenths
C10_Gap2(split) ==
    Abs((split.team1[1].rating + split.team1[2].rating)
        - (split.team2[1].rating + split.team2[2].rating))

C10_SameTier(team) == LevelIndex(team[1].rating) = LevelIndex(team[2].rating)

\* twice the score of a split without history and mixed preference: ten times
\* the gap of the averages, less 3 for each side whose two players share a tier
C10_Cost2(split) ==
    C10_Gap2(split) - (IF C10_SameTier(split.team1) THEN 6 ELSE 0)
                    - (IF C10_SameTier(split.team2) THEN 6 ELSE 0)

C10_Partitions == Range(SplitOptions(players))

C11_GroupsReachMinimum ==
    separated # <<>> =>
        \A k \in DOMAIN separated[1] :
            separated[1][k].level # MixedLevel => Len(separated[1][k].players) >= minPerLevel

\* C11 witness: a returned group that adopted an orphan of a level two or more away
C11_Witness_OrphanAdopted ==
    /\ separated # <<>>
    /\ Len(separated[1]) >= 2
    /\ \E k \in DOMAIN separated[1] : \E q \in Range(separated[1][k].players) :
          /\ separated[1][k].level # MixedLevel
          /\ Abs(LevelIndex(q.rating) - separated[1][k].level) >= 2

(* --------------------------- ladder properties ------------------------ *)
\* the hierarchy a ladder match belongs to: its skill group, its team gender group,
\* or the whole round when the roster is not separated
Hierarchy(m) ==
    IF format = "kot" THEN m.skillLevel
    ELSE IF bySkill /\ Len(teams) >= 4 THEN m.teamGender
    ELSE "All Teams"

\* the matches of a round that are in the hierarchy of its match i
HierarchyOf(round, i) == {j \in DOMAIN round : Hierarchy(round[j]) = Hierarchy(round[i])}

\* C12 as stated: a ladder match awards twice (courts its hierarchy plays on - zero-based
\* index of its court in the hierarchy), so the lowest court of a hierarchy awards 2
C12_PointsByCourtsPlayed ==
    format \in LadderFormats =>
        \A r \in DOMAIN rounds : \A i \in DOMAIN rounds[r] :
            LET h == HierarchyOf(rounds[r], i)
                index == Cardinality({j \in h : rounds[r][j].court < rounds[r][i].court})
            IN  rounds[r][i].pointsForWin = (Cardinality(h) - index) * 2

(* ----------------------- fairness sweep properties -------------------- *)
\* the match lists generateRoundRobinRound can have in hand when the fairness sweep starts
GeneratedMatches ==
    IF format = "doubles" /\ roundIdx < RoundCap
    THEN RoundRobinMatches(players, courts, DoublesInitializePlayerStats(stats, players),
                           roundIdx, bySkill, preferMixed, FemaleRestInterval)
    ELSE {}

\* every present player sitting out of the matches has sat out at most the average
NobodyOverdue(matches) ==
    LET total == SumOver([id \in Roster |-> GroundTruthSatOut(rounds, id)], Roster)
    IN  \A id \in Roster \ PlayingIds(matches) :
            GroundTruthSatOut(rounds, id) * Len(players) <= total

\* C13: when no sitting player's ground-truth sat-out count is above the average of the
\* present players, the fairness sweep returns the matches exactly as generated
C13_SweepLeavesFairRoundAlone ==
    \A g \in GeneratedMatches :
        NobodyOverdue(g) =>
            FairnessSweep(g, players, rounds, DoublesInitializePlayerStats(stats, players),
                          preferMixed) = g

\* C13 witness: a later round in which somebody sits out who is not overdue, while a
\* playing player of a close rating has sat out less often
C13_Witness_FairButSwappable ==
    /\ rounds # <<>>
    /\ \E g \in GeneratedMatches :
          /\ NobodyOverdue(g)
          /\ \E q \in Roster \ PlayingIds(g), pl \in PlayingIds(g) :
                /\ GroundTruthSatOut(rounds, pl) < GroundTruthSatOut(rounds, q)
                /\ Abs(ById(players, pl).rating - ById(players, q).rating) <= 5

(* ----------------------- ladder movement properties ------------------- *)
\* the matches of the round before round r that are in the hierarchy of match i of round r
PreviousHierarchy(r, i) ==
    {j \in DOMAIN rounds[r - 1] : Hierarchy(rounds[r - 1][j]) = Hierarchy(rounds[r][i])}

\* the ids playing in the matches h of a round
PlayersOf(round, h) == UNION {Range(Slots(round[j])) : j \in h}

\* the court an id plays on in a round
CourtOf(round, id) == round[CHOOSE j \in DOMAIN round : id \in Range(Slots(round[j]))].court

\* round r is a later round whose hierarchy of match i has the players of the round
\* before on as many courts, every one of those matches completed
SameFieldAgain(r, i) ==
    /\ r >= 2
    /\ Cardinality(HierarchyOf(rounds[r], i)) = Cardinality(PreviousHierarchy(r, i))
    /\ PlayersOf(rounds[r], HierarchyOf(rounds[r], i))
           = PlayersOf(rounds[r - 1], PreviousHierarchy(r, i))
    /\ \A j \in PreviousHierarchy(r, i) : rounds[r - 1][j].status = "completed"

\* the court the ladder rule sends a participant of match j of the round before to
LadderTarget(r, i, j, id) ==
    LET prev == rounds[r - 1]
        used == {prev[x].court : x \in PreviousHierarchy(r, i)}
        top == CHOOSE c \in used : \A d \in used : c <= d
        bottom == CHOOSE c \in used : \A d \in used : c >= d
        k == prev[j].court
    IN  IF SideOf(prev[j], id) = prev[j].winner
        THEN (IF k > top THEN k - 1 ELSE top)
        ELSE (IF k < bottom THEN k + 1 ELSE bottom)

\* C14: in a ladder round after the first, when the same players or teams of a hierarchy
\* fill the same number of courts and every match of the round before is completed,
\* winners move up one court (staying on the top court) and losers move down one court
\* (staying on the bottom court)
C14_WinnersUpLosersDown ==
    format \in LadderFormats =>
        \A r \in DOMAIN rounds : \A i \in DOMAIN rounds[r] :
            SameFieldAgain(r, i) =>
                \A j \in PreviousHierarchy(r, i) : \A id \in Range(Slots(rounds[r - 1][j])) :
                    CourtOf(rounds[r], id) = LadderTarget(r, i, j, id)

\* C14 witness: eight players on two courts, second round: a winner of court 2 now on
\* court 1 and a loser of court 1 now on court 2
C14_Witness_TwoCourtsSwapped ==
    /\ format = "kot"
    /\ Len(rounds) = 2
    /\ Len(rounds[2]) = 2
    /\ SameFieldAgain(2, 1)
    /\ \E j \in DOMAIN rounds[1] : \E id \in Range(Slots(rounds[1][j])) :
          /\ rounds[1][j].court = 2
          /\ SideOf(rounds[1][j], id) = rounds[1][j].winner
          /\ CourtOf(rounds[2], id) = 1
    /\ \E j \in DOMAIN rounds[1] : \E id \in Range(Slots(rounds[1][j])) :
          /\ rounds[1][j].court = 1
          /\ SideOf(rounds[1][j], id) # rounds[1][j].winner
          /\ CourtOf(rounds[2], id) = 2

(* --------------------------- singles properties ----------------------- *)
\* the orders selectPlayersForRound can hand to the court loop of generateSinglesRound
SinglesSelections ==
    IF format = "singles" /\ roundIdx < RoundCap
    THEN SinglesSelectPlayersForRound(players, SinglesInitializePlayerStats(stats, players),
                                      courts * 2, roundIdx)
    ELSE {}

\* the matches the court loop makes of a selection
SinglesMatchesOf(order) ==
    SinglesCourtLoop([i \in DOMAIN order |-> ById(players, order[i])], {}, 0, courts, <<>>)

\* a selected player left without a same-gender opponent: every other selected player
\* of the gender is in a match against somebody else
Unpaired(order, matches, id) ==
    /\ id \in Range(order)
    /\ \A k \in DOMAIN order :
          (order[k] # id /\ ById(players, order[k]).gender = ById(players, id).gender) =>
              \E m \in DOMAIN matches :
                  order[k] \in MatchIds(matches[m]) /\ id \notin MatchIds(matches[m])

\* C15: every match of generateSinglesRound has two players of one gender, and a selected
\* player with no same-gender player left is in no match and is counted as sat out
C15_SameGenderOrSitOut ==
    \A order \in SinglesSelections :
        LET matches == SinglesMatchesOf(order)
            updatedStats == SinglesInitializePlayerStats(stats, players)
            after == updatePlayerStatsForSinglesRound(updatedStats, players, matches, roundIdx)
        IN  /\ \A m \in DOMAIN matches :
                  ById(players, matches[m].player1).gender = ById(players, matches[m].player2).gender
            /\ \A id \in Range(order) :
                  Unpaired(order, matches, id) =>
                      /\ id \notin PlayingIds(matches)
                      /\ after[id].roundsSatOut = updatedStats[id].roundsSatOut + 1
                      /\ after[id].roundsPlayed = updatedStats[id].roundsPlayed

\* C15 witness: in a later round, a selection of four from which one pair was made
\* while a selected player of the other gender found nobody
C15_Witness_SelectedButSkipped ==
    \E order \in SinglesSelections :
        /\ roundIdx >= 1
        /\ Len(order) = 4
        /\ Len(SinglesMatchesOf(order)) = 1
        /\ \E id \in Range(order) :
              /\ Unpaired(order, SinglesMatchesOf(order), id)
              /\ \E k \in DOMAIN order : ById(players, order[k]).gender # ById(players, id).gender

(* ------------------------ teamed doubles properties ------------------- *)
\* C16: every match of generateTeamedDoublesRound pairs two different teams of one gender
\* category, and a round never has more matches than there are courts
C16_SameCategoryWithinCourts ==
    format = "teamed_doubles" =>
        \A r \in DOMAIN rounds :
            /\ Len(rounds[r]) <= courts
            /\ \A i \in DOMAIN rounds[r] :
                  /\ rounds[r][i].team1Id # rounds[r][i].team2Id
                  /\ ById(teams, rounds[r][i].team1Id).gender
                        = ById(teams, rounds[r][i].team2Id).gender
                  /\ ById(teams, rounds[r][i].team1Id).gender
                        \in {"male_male", "female_female", "mixed"}

\* C16 witness: a round that used up its courts on the male teams while two female
\* teams were left without a match
C16_Witness_CourtsRanOut ==
    /\ format = "teamed_doubles"
    /\ rounds # <<>>
    /\ Len(rounds[Len(rounds)]) = courts
    /\ \A i \in DOMAIN rounds[Len(rounds)] :
          ById(teams, rounds[Len(rounds)][i].team1Id).gender = "male_male"
    /\ Len(GenderTeams(teams, "female_female")) >= 2

(* ------------------------ tournament properties ----------------------- *)
\* the step is a call of generateNextRound: it alerts, or it moves to the next round
NextRoundCalled == alertMsg' # "" \/ roundIdx' # roundIdx

\* fewer entities are present than the format asks for: two players for singles,
\* two teams for fixed teams, four players for doubles
TooFewPresent ==
    IF format = "teamed_doubles" THEN Len(teams) < 2
    ELSE IF format = "singles" /\ tournamentType = "round_robin" THEN Len(players) < 2
    ELSE Len(players) < 4

\* C17: generateNextRound with fewer present entities than the minimum of the format
\* is rejected without effect: it alerts, appends no round, keeps the round index and
\* leaves the court states, the player and team stats and the ladder stats as they are.
C17_ShortRosterRejectedWithoutEffect ==
    [][(TooFewPresent /\ NextRoundCalled) =>
          /\ alertMsg' # ""
          /\ UNCHANGED <<rounds, roundIdx, courtStates, stats, fixedTeamStats,
                         ladderStats, ladderTeamStats>>]_vars

SomeCourtBusy == \E c \in DOMAIN courtStates : courtStates[c].status \in {"playing", "cleaning"}

\* C19: in ladder mode generateNextRound creates a round only if every court is ready;
\* while a court is playing or cleaning the call is blocked: it alerts, appends no
\* round, gives no court a match and leaves the ladder stats as they are.
C19_LadderWaitsForTheCourts ==
    [][tournamentType = "king_of_court" =>
          /\ rounds' # rounds => \A c \in DOMAIN courtStates : courtStates[c].status = "ready"
          /\ (SomeCourtBusy /\ NextRoundCalled) =>
                /\ alertMsg' # ""
                /\ UNCHANGED <<rounds, roundIdx, courtStates, ladderStats, ladderTeamStats,
                               kotAutoTeams>>]_vars

\* the next round was asked for while a court of the ladder was being cleaned after
\* the first round, and the call was turned down
C19_Witness_BlockedWhileCleaning ==
    /\ tournamentType = "king_of_court"
    /\ Len(rounds) = 1
    /\ \E c \in DOMAIN courtStates : courtStates[c].status = "cleaning"
    /\ alertMsg = "Complete all current matches before generating the next King of Court round."

\* C20: generateRoundRobinRound (doubles) and generateTeamedDoublesRound accept stats
\* whose teammate and opponent histories are plain objects, as generateNextRound hands
\* them over: with enough players or teams present the round is generated without an
\* error.
C20_PlainHistoriesAccepted ==
    [][(/\ tournamentType = "round_robin" /\ format \in {"doubles", "teamed_doubles"}
        /\ ~TooFewPresent /\ NextRoundCalled) =>
          /\ alertMsg' = ""
          /\ rounds' # rounds /\ Len(rounds') = Len(rounds) + 1]_vars

(* ------------------------ match format properties --------------------- *)
\* C18: generateSinglesRound or generateRoundRobinRound called with an undefined or
\* unrecognized match format (anything but single_match and best_of_3) fails with an
\* error: no matches are returned and the stats map is not modified.
C18_UnknownMatchFormatFails ==
    [][matchFormat \notin {"single_match", "best_of_3"} =>
          /\ thrown' # ""
          /\ UNCHANGED <<rounds, stats>>]_vars

(* ----------------------- changing roster properties -------------------- *)
\* the entry of an entity outside the roster of the call is what it was
AbsentUntouched(id) == id \in DOMAIN stats' /\ (id \notin Roster => stats'[id] = stats[id])

\* C21: a generator call deletes no stats entry and leaves the whole entry (counters,
\* lastPlayedRound and histories) of every entity outside the roster it is given as it was
C21_AbsentEntriesKept ==
    [][IsGeneratorCall => \A id \in DOMAIN stats : AbsentUntouched(id)]_vars

\* somebody who played and then left: rounds have been generated without them
C21_Witness_RoundsWithoutTheAbsent ==
    \E id \in DOMAIN stats \ Roster :
        /\ Played(stats, id) >= 1
        /\ Played(stats, id) + SatOut(stats, id) < roundIdx

(* --------------------------- migration properties ---------------------- *)
UploadFailed ==
    prompt.migrationResults.players.failed > 0 \/ prompt.migrationResults.tournament.failed > 0

\* C22: local data is cleared and the migration marked as completed only after a
\* successful upload: once an upload has reported failure, pb_roster and pb_session
\* are still in local storage and migration_completed is not set by the migration
C22_FailedUploadKeepsLocalData ==
    (prompt.pc \in {"finish", "done"} /\ UploadFailed) =>
        /\ hasLocalStorageData(localStorage)
        /\ getItem(localStorage, "migration_completed") = Null

(* ---------------------------- server properties ------------------------ *)
ActiveRows == {r \in Rows(tournamentsTable) : r.is_active_session}

\* C23: whatever the interleaving of the saveSession and clearSession requests of one
\* user, at most one of the user's rows has is_active_session = TRUE, and saveSession
\* inserts no row for a user who already has one
C23_OneActiveRowPerUser ==
    /\ [](Cardinality(ActiveRows) <= 1)
    /\ [][Len(tournamentsTable') > Len(tournamentsTable) => tournamentsTable = <<>>]_vars

(* ----------------------------- sync properties ------------------------- *)
Puts == {i \in DOMAIN sync.issued : sync.issued[i].method = "PUT"}
Deletes == {i \in DOMAIN sync.issued : sync.issued[i].method = "DELETE"}

\* snapshot n was followed by another saveSession call less than 3 seconds later
FollowedInTime(n) == n < Len(sync.taken) /\ sync.taken[n + 1] - sync.taken[n] < DEBOUNCE_MS

\* the last snapshot has had its 3 seconds and no clearSession came after it
LastSnapshotDue ==
    /\ sync.taken # <<>> /\ sync.timers = {}
    /\ getToken(localStorage) # Null
    /\ \A d \in Deletes : sync.issued[d].snapshot < Len(sync.taken)

\* C24: of saveSession calls that follow one another within 3 seconds only the last
\* snapshot is sent, once; and no PUT issued after a DELETE carries a snapshot taken
\* before the clearSession call that issued the DELETE
C24_DebouncedAndCancelledByClear ==
    /\ \A p \in Puts : ~FollowedInTime(sync.issued[p].snapshot)
    /\ \A p, q \in Puts : sync.issued[p].snapshot = sync.issued[q].snapshot => p = q
    /\ LastSnapshotDue => \E p \in Puts : sync.issued[p].snapshot = Len(sync.taken)
    /\ \A d \in Deletes : \A p \in Puts : p > d => sync.issued[p].snapshot > sync.issued[d].snapshot

\* a burst of two of which only the second was sent, then a third save that a
\* clearSession cancelled while it was waiting
C24_Witness_BurstAndCancelledSave ==
    /\ Len(sync.taken) = 3 /\ FollowedInTime(1)
    /\ \E p \in Puts : sync.issued[p].snapshot = 2
    /\ \E d \in Deletes : sync.issued[d].snapshot = 3
    /\ \A p \in Puts : sync.issued[p].snapshot # 3
    /\ sync.timers = {}

(* ----------------------------- fairness properties --------------------- *)
\* validateFairness as called at the end of generateRoundRobinRound for round r
validateFairness(playerStats, presentPlayers, currentRound) ==
    IF currentRound = 0 THEN TRUE
    ELSE LET satOut == [i \in DOMAIN presentPlayers |-> SatOut(playerStats, presentPlayers[i].id)]
         IN  SeqMax(satOut) - SeqMin(satOut) <= 1

SatOutSpread ==
    LET satOut == [i \in DOMAIN players |-> SatOut(stats, players[i].id)]
    IN  SeqMax(satOut) - SeqMin(satOut)

\* C25: fixed roster, no skill separation, no mixed preference, one stats map: after
\* every doubles round the largest and the smallest roundsSatOut of the present
\* players differ by at most 1, and validateFairness answers true
C25_SatOutSpreadAtMostOne ==
    (format = "doubles" /\ ~bySkill /\ ~preferMixed /\ roundIdx >= 1) =>
        /\ SatOutSpread <= 1
        /\ validateFairness(stats, players, roundIdx - 1)

\* C26: in round-robin doubles with a fixed roster of at least 4 players no present
\* player sits out forever, whatever the number of courts and also with skill
\* separation on: by the end of the rounds followed here, which are enough for
\* everybody to have had a turn, every present player has been in a match
C26_NobodySitsOutForever ==
    (format = "doubles" /\ Len(players) >= 4 /\ courts >= 1 /\ roundIdx >= MaxRounds) =>
        \A id \in Roster : Played(stats, id) >= 1

\* the present players of the same gender as the player, the player apart
Peers(id) == {q.id : q \in {x \in Range(players) : x.id # id /\ x.gender = ById(players, id).gender}}

Alone == {id \in Roster : Peers(id) = {}}

\* C27: in round-robin singles with a fixed roster and at least one court, a player
\* without a same-gender peer never keeps the others from getting their matches (in a
\* roster with such a player and two players who share a gender every round has a
\* match), and every player who has a peer has played by the end of the rounds
\* followed here
C27_SinglesEverybodyWithAPeerPlays ==
    (format = "singles" /\ courts >= 1) =>
        /\ (Alone # {} /\ Alone # Roster) => \A r \in DOMAIN rounds : rounds[r] # <<>>
        /\ roundIdx >= MaxRounds => \A id \in Roster \ Alone : Played(stats, id) >= 1

\* the other teams of the team's gender category
CategoryPeers(id) == {t.id : t \in {x \in Range(teams) : x.id # id /\ x.gender = ById(teams, id).gender}}

\* C28: in round-robin teamed doubles with a fixed team list and at least one court,
\* every team with another team of its own gender category plays within a bounded
\* number of rounds, however many teams the other categories have: by the end of the
\* rounds followed here each such team has been in a match
C28_TeamsWithAPeerPlay ==
    (format = "teamed_doubles" /\ courts >= 1 /\ roundIdx >= MaxRounds) =>
        \A id \in Roster : CategoryPeers(id) # {} => Played(stats, id) >= 1

(* ---------------------- fairness sweep substitutions ------------------- *)
GroundTruth == [id \in Roster |-> GroundTruthSatOut(rounds, id)]

RECURSIVE SweepPasses(_, _, _)
\* the passes of fairnessCandidates.forEach over a match list, one per candidate:
\* the list before the pass, the list after it and the candidate
SweepPasses(matches, cands, updatedStats) ==
    IF cands = <<>> THEN <<>>
    ELSE LET after == SwapIn(matches, players, GroundTruth, Head(cands), updatedStats, preferMixed)
         IN  <<[before |-> matches, after |-> after, needsIn |-> Head(cands)]>>
             \o SweepPasses(after, Tail(cands), updatedStats)

\* the passes of the sweep on the match list g
PassesOn(g) ==
    IF rounds = <<>> THEN <<>>
    ELSE SweepPasses(g, FairnessCandidates(g, players, rounds),
                     DoublesInitializePlayerStats(stats, players))

\* the pass made no substitution, or one as the claim describes it
SubstitutionAsClaimed(pass) ==
    LET changed == {i \in DOMAIN pass.before : pass.after[i] # pass.before[i]}
        in == pass.needsIn
    IN  \/ pass.after = pass.before
        \/ /\ DOMAIN pass.after = DOMAIN pass.before
           /\ Cardinality(changed) = 1
           /\ in.id \notin PlayingIds(pass.before)
           /\ GroundTruth[in.id] * Len(players) > SumOver(GroundTruth, Roster)
           /\ \A i \in changed :
                 /\ pass.after[i].court = pass.before[i].court
                 /\ MatchIds(pass.after[i]) \ MatchIds(pass.before[i]) = {in.id}
                 /\ \E out \in MatchIds(pass.before[i]) :
                       /\ MatchIds(pass.before[i]) \ MatchIds(pass.after[i]) = {out}
                       /\ GroundTruth[out] < GroundTruth[in.id]
                       /\ Abs(ById(players, out).rating - in.rating) <= 5

\* C29: every substitution of the fairness sweep brings in a player who was sitting
\* out with a ground-truth sat-out count above the average and takes out a participant
\* with a strictly lower count and a rating within 0.5 of the incoming player's; the
\* number of matches and every other match stay as they were
C29_SubstitutionsAsClaimed ==
    \A g \in GeneratedMatches :
        \A k \in DOMAIN PassesOn(g) : SubstitutionAsClaimed(PassesOn(g)[k])

\* a second round of two matches in which the waiting player is swapped in
C29_Witness_SubstitutionBesideAnotherMatch ==
    \E g \in GeneratedMatches :
        /\ Len(g) = 2
        /\ \E k \in DOMAIN PassesOn(g) : PassesOn(g)[k].after # PassesOn(g)[k].before

(* ----------------------- gender-aware selection ------------------------ *)
Men == Ids(players) \ Women
SelectorSlots == courts * 4

\* what the selector can return for the next round of the unseparated roster
Selections ==
    IF format = "doubles" /\ roundIdx < RoundCap /\ ~(bySkill /\ Len(players) >= 8)
    THEN DoublesSelectPlayersForRound(players, DoublesInitializePlayerStats(stats, players),
                                      SelectorSlots, roundIdx, preferMixed, FemaleRestInterval)
    ELSE {}

ReservedForWomen == Min2(Cardinality(Women), SelectorSlots \div 2)

\* C30: with mixed preference on and more players than slots N, the selector returns
\* exactly N distinct players of the roster, at least min(women, N/2) of them women;
\* men fill the other slots, and more women are taken only when the men run out
C30_GenderAwareSelection ==
    (preferMixed /\ Len(players) > SelectorSlots) =>
        \A sel \in Selections :
            /\ Len(sel) = SelectorSlots
            /\ \A i, j \in DOMAIN sel : i # j => sel[i] # sel[j]
            /\ Range(sel) \subseteq Ids(players)
            /\ Cardinality(Range(sel) \cap Women) >= ReservedForWomen
            /\ Cardinality(Range(sel) \cap Men) = Min2(Cardinality(Men), SelectorSlots - ReservedForWomen)
            /\ (Cardinality(Range(sel) \cap Women) > ReservedForWomen => Men \subseteq Range(sel))

\* after a round, six women and one man: the man and three women are selected
C30_Witness_WomenFillForMissingMen ==
    /\ preferMixed /\ Len(players) > SelectorSlots /\ roundIdx >= 1
    /\ Cardinality(Men) = 1
    /\ \E sel \in Selections :
         Cardinality(Range(sel) \cap Women) = 3 /\ Men \subseteq Range(sel)

(* --------------------------- deciding game ----------------------------- *)
\* games 1 and 2 of m are entered and split 1-1
SplitOneOne(m) ==
    /\ m.matchFormat = "best_of_3"
    /\ Blank \notin {m.game1Score1, m.game1Score2, m.game2Score1, m.game2Score2}
    /\ \/ m.game1Score1 > m.game1Score2 /\ m.game2Score1 < m.game2Score2
       \/ m.game1Score1 < m.game1Score2 /\ m.game2Score1 > m.game2Score2

\* C31: in best-of-3 with games 1 and 2 split 1-1, quickWin accepts every entered,
\* untied game-3 score, one with a 0 for the loser included, and completes the
\* match for the declared side when that side won game 3
C31_DecidingGameAccepted ==
    \A rIdx \in DOMAIN rounds : \A mIdx \in DOMAIN rounds[rIdx] :
        LET m == rounds[rIdx][mIdx]
            side == IF m.game3Score1 > m.game3Score2 THEN 1 ELSE 2
        IN  (/\ m.status # "completed"
             /\ SplitOneOne(m)
             /\ m.game3Score1 # Blank /\ m.game3Score2 # Blank
             /\ m.game3Score1 # m.game3Score2)
            => /\ quickWinAlert(m, side) = ""
               /\ quickWin(rounds, rIdx, mIdx, side)[rIdx][mIdx].status = "completed"
               /\ quickWin(rounds, rIdx, mIdx, side)[rIdx][mIdx].winner
                      = (IF side = 1 THEN "team1" ELSE "team2")

(* ------------------------ one match a round ---------------------------- *)
\* C32: in the rounds the session records, no player id appears in two matches of
\* the same round
C32_OneMatchARound ==
    \A r \in DOMAIN rounds : \A i, j \in DOMAIN rounds[r] :
        i # j => MatchIds(rounds[r][i]) \cap MatchIds(rounds[r][j]) = {}

(* ------------------------ one court at a time -------------------------- *)
\* C36: at every moment of a session no player is a participant of the current
\* matches of two different courts
C36_OnOneCourtAtATime ==
    \A c, d \in DOMAIN courtStates :
        (c # d /\ courtStates[c].currentMatch # <<>> /\ courtStates[d].currentMatch # <<>>)
        => MatchIds(courtStates[c].currentMatch[1]) \cap MatchIds(courtStates[d].currentMatch[1]) = {}

(* ------------------------- skill buckets ------------------------------- *)
\* C33: the buckets separatePlayersBySkill returns partition its input: every input
\* player is in exactly one bucket, once, and no bucket holds anybody else
C33_BucketsPartitionInput ==
    separated # <<>> =>
        LET groups == separated[1] IN
        /\ \A p \in Range(players) :
              Cardinality({k \in DOMAIN groups : p \in Range(groups[k].players)}) = 1
        /\ \A k \in DOMAIN groups :
              /\ Range(groups[k].players) \subseteq Range(players)
              /\ Cardinality(Range(groups[k].players)) = Len(groups[k].players)

\* two buckets are returned and one of them holds a player of another level
C33_Witness_MergedBuckets ==
    /\ separated # <<>>
    /\ Len(separated[1]) >= 2
    /\ \E k \in DOMAIN separated[1] : \E q \in Range(separated[1][k].players) :
          LevelIndex(q.rating) # separated[1][k].level

\* the levels after the upward and the downward merge pass
MergedLevels(ps, minPlayersPerLevel) ==
    BumpDown(BumpUp([l \in 0..(NumLevels - 1) |->
                        Filter(ps, {q.id : q \in {r \in Range(ps) : LevelIndex(r.rating) = l}})],
                    0, minPlayersPerLevel),
             NumLevels - 1, minPlayersPerLevel)

ReturnsMixed == \E k \in DOMAIN separated[1] : separated[1][k].level = MixedLevel

\* C34: the MIXED bucket is returned if and only if the population is non-empty and
\* smaller than the minimum bucket size; otherwise every bucket is a rating tier and
\* the two merge passes leave no orphan
C34_MixedOnlyForSmallPopulation ==
    separated # <<>> =>
        /\ ReturnsMixed <=> (Len(players) > 0 /\ Len(players) < minPerLevel)
        /\ ~ReturnsMixed =>
              /\ \A k \in DOMAIN separated[1] : separated[1][k].level \in 0..(NumLevels - 1)
              /\ Orphans(MergedLevels(players, minPerLevel), 0, minPerLevel) = <<>>

\* players of two levels, fewer than the minimum together: the MIXED bucket
C34_Witness_MixedReturned ==
    /\ separated # <<>>
    /\ ReturnsMixed
    /\ \E p, q \in Range(players) : LevelIndex(p.rating) # LevelIndex(q.rating)

(* ------------------------------- undo ---------------------------------- *)
\* the match is the current match of its court
OnItsCourt(m) ==
    \E c \in DOMAIN courtStates :
        /\ courtStates[c].courtNumber = m.court
        /\ courtStates[c].currentMatch # <<>>
        /\ courtStates[c].currentMatch[1].id = m.id

\* C35: undoLastMatch is the inverse of completing a match: after a match on its court
\* is completed (winner recorded by quickWin, court freed by completeCourtMatch) and
\* then undone, that match is pending with empty scores, it is the match put back on
\* its court, and its players' roundsPlayed are what they were before the completion
C35_UndoInvertsCompletion ==
    \A rIdx \in DOMAIN rounds : \A mIdx \in DOMAIN rounds[rIdx] : \A side \in {1, 2} :
        LET m == rounds[rIdx][mIdx]
            completed == quickWin(rounds, rIdx, mIdx, side)
            played == SinglesCompleted(stats, completed[rIdx][mIdx], roundIdx)
            target == LastCompleted(completed)
            revertedMatch == RevertedMatch(completed[target[1]][target[2]])
            undone == [completed EXCEPT ![target[1]][target[2]] = revertedMatch]
            after == Undone(played, revertedMatch)
        IN  (/\ tournamentType = "round_robin" /\ m.gameFormat = "singles"
             /\ m.status = "pending" /\ OnItsCourt(m)
             /\ quickWinAlert(m, side) = "")
            => /\ undone[rIdx][mIdx].status = "pending"
               /\ undone[rIdx][mIdx].winner = "none"
               /\ \A f \in ScoreFields(m) : undone[rIdx][mIdx][f] = Blank
               /\ revertedMatch.id = m.id
               /\ \A id \in MatchIds(m) \cap DOMAIN stats :
                     after[id].roundsPlayed = stats[id].roundsPlayed

(* ---------------------------- court numbers ---------------------------- *)
\* C37: in every generated round, whichever of the five generators produced it and
\* with or without skill separation, the court numbers of the matches are pairwise
\* distinct and lie in 1..courts
C37_CourtNumbersDistinctInRange ==
    \A r \in DOMAIN rounds :
        /\ \A i \in DOMAIN rounds[r] : rounds[r][i].court \in 1..courts
        /\ \A i, j \in DOMAIN rounds[r] :
              rounds[r][i].court = rounds[r][j].court => i = j

\* a round of at least two matches produced under skill separation
C37_Witness_SeparatedRoundOnSeveralCourts ==
    /\ bySkill
    /\ \E r \in DOMAIN rounds : Len(rounds[r]) >= 2

(* ----------------------------- ladder stats ---------------------------- *)
\* the rounds (1-based) in which the entity was placed on a court
PlacedIn(id) ==
    {r \in DOMAIN rounds : \E i \in DOMAIN rounds[r] : SideOf(rounds[r][i], id) # "none"}

\* C38: for every ladder stats entry, after any number of ladder rounds, courtHistory
\* is as long as roundsPlayed; when roundsPlayed > 0, currentCourt is the last element
\* of courtHistory and lastPlayedRound is the index of the last round in which the
\* entity was placed on a court; lastPlayedRound is -1 when roundsPlayed = 0
C38_LadderStatsConsistent ==
    format \in {"kot", "kot_teamed"} =>
        \A id \in DOMAIN stats :
            LET s == stats[id]
            IN  /\ Len(s.courtHistory) = s.roundsPlayed
                /\ s.roundsPlayed > 0 =>
                      /\ s.currentCourt = s.courtHistory[Len(s.courtHistory)]
                      /\ PlacedIn(id) # {}
                      /\ s.lastPlayedRound =
                            (CHOOSE r \in PlacedIn(id) : \A q \in PlacedIn(id) : q <= r) - 1
                /\ s.roundsPlayed = 0 => s.lastPlayedRound = -1

\* an entity that played, sat out the next round and so has a history shorter than the
\* number of rounds, next to one that changed courts
C38_Witness_PlayedThenSatOut ==
    /\ format \in {"kot", "kot_teamed"}
    /\ \E id \in DOMAIN stats :
          /\ stats[id].roundsPlayed > 0
          /\ stats[id].lastPlayedRound < Len(rounds) - 1
    /\ \E id \in DOMAIN stats :
          /\ Len(stats[id].courtHistory) >= 2
          /\ stats[id].courtHistory[1] # stats[id].courtHistory[2]

(* ------------------------- balanced ladder teams ----------------------- *)
\* the i-th highest rating of the players, counted with repetitions
NthHighest(i) ==
    CHOOSE r \in {players[k].rating : k \in DOMAIN players} :
        /\ Cardinality({k \in DOMAIN players : players[k].rating > r}) < i
        /\ Cardinality({k \in DOMAIN players : players[k].rating >= r}) >= i

\* the players who belong to the team
Members(t) == {t.player1, t.player2}

\* C39: on n >= 2 players generateBalancedKOTTeams returns floor(n/2) teams, no player
\* belongs to two teams, the i-th team pairs the i-th highest-rated player with the
\* i-th lowest-rated of the 2*floor(n/2) highest-rated players, and for odd n only the
\* lowest-rated player is left without a team
C39_BalancedTeams ==
    (tournamentType = "king_of_court" /\ kotAutoTeams # <<>>) =>
        LET n == Len(players)
            numTeams == n \div 2
            teamed == UNION {Members(kotAutoTeams[t]) : t \in DOMAIN kotAutoTeams}
        IN  /\ Len(kotAutoTeams) = numTeams
            /\ \A t \in DOMAIN kotAutoTeams : kotAutoTeams[t].player1 # kotAutoTeams[t].player2
            /\ \A t, u \in DOMAIN kotAutoTeams :
                  Members(kotAutoTeams[t]) \cap Members(kotAutoTeams[u]) # {} => t = u
            /\ teamed \subseteq Ids(players)
            /\ \A t \in DOMAIN kotAutoTeams :
                  /\ ById(players, kotAutoTeams[t].player1).rating = NthHighest(t)
                  /\ ById(players, kotAutoTeams[t].player2).rating = NthHighest(2 * numTeams + 1 - t)
            /\ \A id \in Ids(players) \ teamed :
                  /\ Cardinality(Ids(players) \ teamed) = 1
                  /\ \A k \in DOMAIN players : ById(players, id).rating <= players[k].rating

\* five players of three different ratings: two teams, and the player left out
C39_Witness_OddRosterTeamed ==
    /\ tournamentType = "king_of_court"
    /\ Len(players) = 5
    /\ Len(kotAutoTeams) = 2
    /\ Cardinality({players[k].rating : k \in DOMAIN players}) >= 3
    /\ ById(players, kotAutoTeams[1].player1).rating # ById(players, kotAutoTeams[1].player2).rating

====
